---- MODULE Spec2Model ----
(***************************************************************************)
(* Verification model of pajaco/spaces: the section dependency order       *)
(* (spaces.py sort_sections over SpacesConfigParser.getuses) and the       *)
(* provisioning session (SpaceState.dispense driving one provider          *)
(* generator at a time, served by SpacesTCPHandler); the library calls     *)
(* getuses, CascadingConfigParser.get / items and the interpolation of     *)
(* option values; the steps the providers write, run on a host; the       *)
(* script ScriptGenerator builds from providers; and DefinitionParser      *)
(* reading a definition file.                                              *)
(*                                                                         *)
(* Sections are named by the integers 1..MaxSections; the integer order    *)
(* stands for the string order Python's sorted() uses.                     *)
(***************************************************************************)
EXTENDS Integers, Sequences, FiniteSets, TLC

\* ------------------------------------------------------------------ bounds
\* largest number of sections of a configuration in the ordering model
MaxSections == 3
\* largest number of sections (providers) of a served configuration
MaxProviders == 2
\* largest number of commands one provider generator yields
MaxSteps == 2
\* largest number of lines of one request
MaxLines == 3
\* number of requests the two-client model follows
MaxRequests == 4
\* largest number of tokens of an option value handed to getuses
MaxTokens == 2
\* largest number of labels of a section name of the cascading parser
MaxLabels == 3
\* nesting of get calls at which the interpreter gives up with RuntimeError
RecursionLimit == 5
\* largest number of lines of a definition read by DefinitionParser
MaxInput == 6
\* largest number of providers a script is built from
MaxBlocks == 2

VARIABLES
    cfg,        \* the parsed configuration: [sections, uses, vals, kind]
    phase,      \* "config" before construction, then "sorted" / "serving"
    sorted,     \* result of sort_sections(cfg)
    providers,  \* SpaceState.providers: the provider list, in sorted order
    state,      \* the SpaceState attributes dispense keeps
    req,        \* summary of the data of the last dispense call
    resp,       \* what the last dispense call returned or raised
    pre,        \* state as it was when the last dispense call began
    hist,       \* history of the run since the last begin
    solo,       \* per client: the SpaceState a server of its own would hold
    soloResp,   \* per client: the response that private server gave last
    nreq,       \* number of requests served
    pipe,       \* the session driven over the paired pipes
    direct,     \* the same session driven in process
    call,       \* the library call made last: what was called and its result
    ccfg,       \* the sections held by CascadingConfigParser._config_parser
    icfg,       \* the sections and raw option values interpolation reads
    host,       \* the shell and the file system the generated steps run on
    run,        \* the steps of the script being run and how far it has come
    dp          \* the DefinitionParser reading a definition, line by line

\* what the library calls keep: none of it belongs to the served session
libVars == <<call, ccfg, icfg, host, run, dp>>

\* the variables of the configuration and of the served session
sessionVars == <<cfg, phase, sorted, providers, state, req, resp, pre, hist,
                 solo, soloResp, nreq, pipe, direct>>

vars == <<cfg, phase, sorted, providers, state, req, resp, pre, hist,
          solo, soloResp, nreq, pipe, direct, libVars>>

\* ------------------------------------------------------------- the config
Names == 1..MaxSections

\* an option value is a sequence of tokens; token 0 is a stretch of plain
\* text, token d > 0 is an interpolation reference "[d]:key"
Txt == 0

\* ConfigParser.has_section
has_section(c, s) == s \in c.sections

\* _KEYCRE.match(v): the pattern is tried at position 0 only.  -1 when
\* nothing matches (the value is empty); otherwise group(1), which is the
\* referenced section when the value starts with a reference and None
\* (Txt) otherwise
KEYCRE_match(v) == IF v = <<>> THEN -1 ELSE Head(v)

\* SpacesConfigParser.getuses: [err, uses].  The sections named by _uses,
\* then for every option value the section its match() finds
getuses(c, s) ==
    LET named == c.uses[s]
        vs == c.vals[s]
        heads == {KEYCRE_match(vs[i]) : i \in 1..Len(vs)}
        refs == heads \ {Txt, -1}
    IN  IF \E u \in named : ~has_section(c, u)
          THEN [err |-> "NoSectionError", uses |-> {}]
        ELSE IF -1 \in heads
          THEN [err |-> "AttributeError", uses |-> {}]
        ELSE IF \E d \in refs : ~has_section(c, d)
          THEN [err |-> "NoSectionError", uses |-> {}]
        ELSE [err |-> "", uses |-> named \cup refs]

\* sorted(): the ascending sequence of a finite set of names
RECURSIVE SortedSeq(_)
SortedSeq(S) ==
    IF S = {} THEN <<>>
    ELSE LET m == CHOOSE x \in S : \A y \in S : x <= y
         IN  <<m>> \o SortedSeq(S \ {m})

\* toposort.toposort: repeatedly emit the items with no dependency left;
\* what remains when none is free is a cycle
RECURSIVE toposort_rounds(_)
toposort_rounds(data) ==
    LET ordered == {i \in DOMAIN data : data[i] = {}}
    IN  IF ordered = {}
          THEN [order |-> <<>>, rest |-> DOMAIN data]
        ELSE LET next == [i \in (DOMAIN data) \ ordered |-> data[i] \ ordered]
                 r == toposort_rounds(next)
             IN  [order |-> SortedSeq(ordered) \o r.order, rest |-> r.rest]

\* toposort.toposort_flatten(graph): self dependencies are discarded first
toposort_flatten(graph) ==
    LET data == [i \in DOMAIN graph |-> graph[i] \ {i}]
        r == toposort_rounds(data)
    IN  IF r.rest # {}
          THEN [err |-> "CircularDependencyError", order |-> <<>>]
        ELSE [err |-> "", order |-> r.order]

\* sort_sections with the graph built the wrong way round: each section
\* mapped to the sections that use it
sort_sections_reversed(c) ==
    LET fwd == [s \in c.sections |-> getuses(c, s).uses]
        graph == [s \in c.sections |-> {d \in c.sections : s \in fwd[d]}]
    IN  IF \E s \in c.sections : getuses(c, s).err # ""
          THEN [err |-> getuses(c, CHOOSE s \in c.sections :
                                     getuses(c, s).err # "").err,
                order |-> <<>>]
        ELSE toposort_flatten(graph)

\* spaces.sort_sections: [err, order]; getuses may raise for a section
sort_sections(c) ==
    LET graph == [s \in c.sections |-> getuses(c, s).uses]
        bad == {s \in c.sections : getuses(c, s).err # ""}
    IN  IF bad # {}
          THEN [err |-> getuses(c, CHOOSE s \in bad : \A t \in bad : s <= t).err,
                order |-> <<>>]
        ELSE toposort_flatten(graph)

\* the sections reachable from the set S along graph edges, S included
RECURSIVE Reach(_, _)
Reach(graph, S) ==
    LET N == S \cup UNION {graph[x] : x \in S \cap DOMAIN graph}
    IN  IF N = S THEN S ELSE Reach(graph, N)

\* ------------------------------------------------- provider generators
\* The provider classes are named by the _provider option.  What a
\* provider's provide()/revert() generator does is driven through the
\* generator protocol only (method(), next(), send(outcome)); the kinds
\* below are the generator bodies the model supplies as input:
\*   script  yields its commands one after another while each exits 0 and
\*           raises the fatal abort on the first other exit status
\*   probe   yields a probe; exit 0 means satisfied and it returns, any
\*           other status makes it yield the next command
\*   noop    returns without yielding any command
\*   broken  raises the fatal abort before yielding any command
ProviderKinds == {"script", "probe", "noop", "broken"}
Modes == {"provide", "revert"}

NoCmd == [prov |-> 0, mode |-> "", step |-> 0]
Cmd(p, m, i) == [prov |-> p, mode |-> m, step |-> i]

\* _curr_gen = None
NoGen == [prov |-> 0, mode |-> "", pos |-> 0, live |-> FALSE]

\* method() followed by the first next(): what the generator does
GenStart(kind) ==
    CASE kind = "noop" -> "stop"
      [] kind = "broken" -> "abort"
      [] OTHER -> "yield"

\* send(outcome) on a generator: a finished generator raises StopIteration
GenSend(kind, gen, status) ==
    IF ~gen.live THEN "stop"
    ELSE IF kind = "script"
      THEN IF status # "0" THEN "abort"
           ELSE IF gen.pos < MaxSteps THEN "yield" ELSE "stop"
    ELSE IF status = "0" THEN "stop"
         ELSE IF gen.pos < MaxSteps THEN "yield" ELSE "stop"

\* ----------------------------------------------------------- requests
\* A request is the text the handler received, as its lines.  A line is
\* [tag, arg]: the tag is what the line starts with (TEXT for a line that
\* starts with none of the words dispense and parse_result look for), the
\* arg what follows it.  A STATUS line with arg "-" is the bare word
\* STATUS with no space after it.
Statuses == {"0", "1"}
Line(t, a) == [tag |-> t, arg |-> a]
OutcomeLines ==
    {Line("STATUS", a) : a \in Statuses \cup {"-"}}
      \cup {Line("STDOUT", ""), Line("STDERR", ""), Line("TEXT", "x")}
SeqsUpTo(S, n) == UNION {[1..k -> S] : k \in 1..n}
OutcomeData == SeqsUpTo(OutcomeLines, MaxLines)

\* data.startswith(word)
startswith(data, word) == Head(data).tag = word

\* the loop of parse_result made forgiving: a bare STATUS gives an empty
\* code and a line before any tag is dropped
RECURSIVE parse_lines_lenient(_, _, _)
parse_lines_lenient(data, i, acc) ==
    IF i > Len(data) \/ acc.err # "" THEN acc
    ELSE LET line == data[i] IN
      parse_lines_lenient(data, i + 1,
        CASE line.tag = "STATUS" ->
               [acc EXCEPT !.has = @ \cup {"STATUS"},
                           !.status = IF line.arg = "-" THEN "" ELSE line.arg]
          [] line.tag = "STDOUT" ->
               [acc EXCEPT !.has = @ \cup {"STDOUT"}, !.stdout = <<>>,
                           !.ctx = "STDOUT"]
          [] line.tag = "STDERR" ->
               [acc EXCEPT !.has = @ \cup {"STDERR"}, !.stderr = <<>>,
                           !.ctx = "STDERR"]
          [] OTHER ->
               IF acc.ctx = "STDOUT"
                 THEN [acc EXCEPT !.stdout = Append(@, line.arg)]
               ELSE IF acc.ctx = "STDERR"
                 THEN [acc EXCEPT !.stderr = Append(@, line.arg)]
               ELSE acc)

\* spaces.parse_result, one line at a time: acc holds the dictionary built
\* so far (has: its keys), ctx and the error raised, if any
RECURSIVE parse_lines(_, _, _)
parse_lines(data, i, acc) ==
    IF i > Len(data) \/ acc.err # "" THEN acc
    ELSE LET line == data[i] IN
      parse_lines(data, i + 1,
        CASE line.tag = "STATUS" ->
               IF line.arg = "-"
                 THEN [acc EXCEPT !.err = "IndexError"]
                 ELSE [acc EXCEPT !.has = @ \cup {"STATUS"},
                                  !.status = line.arg]
          [] line.tag = "STDOUT" ->
               [acc EXCEPT !.has = @ \cup {"STDOUT"}, !.stdout = <<>>,
                           !.ctx = "STDOUT"]
          [] line.tag = "STDERR" ->
               [acc EXCEPT !.has = @ \cup {"STDERR"}, !.stderr = <<>>,
                           !.ctx = "STDERR"]
          [] OTHER ->
               IF acc.ctx = "STDOUT"
                 THEN [acc EXCEPT !.stdout = Append(@, line.arg)]
               ELSE IF acc.ctx = "STDERR"
                 THEN [acc EXCEPT !.stderr = Append(@, line.arg)]
               ELSE [acc EXCEPT !.err = "KeyError"])

ParseStart ==
    [has |-> {}, status |-> "", stdout |-> <<>>, stderr |-> <<>>,
     ctx |-> "", err |-> ""]

\* parse_result that forgives what is missing: no error, absent parts empty
parse_result_lenient(data) ==
    LET acc == parse_lines_lenient(data, 1, ParseStart)
    IN  [err |-> "", status |-> acc.status, stdout |-> acc.stdout,
         stderr |-> acc.stderr]

\* spaces.parse_result: [err, status, stdout, stderr]
parse_result(data) ==
    LET acc == parse_lines(data, 1, ParseStart)
    IN  IF acc.err # ""
          THEN [err |-> acc.err, status |-> "", stdout |-> <<>>,
                stderr |-> <<>>]
        ELSE IF acc.has # {"STATUS", "STDOUT", "STDERR"}
          THEN [err |-> "KeyError", status |-> "", stdout |-> <<>>,
                stderr |-> <<>>]
        ELSE [err |-> "", status |-> acc.status, stdout |-> acc.stdout,
              stderr |-> acc.stderr]

\* ---------------------------------------------------------- responses
\* what dispense gives back: a returned text, as its lines [tag, cmd], or
\* a raised exception
RLine(t, c) == [tag |-> t, cmd |-> c]
Return(lines) == [type |-> "return", exc |-> "", lines |-> lines]
Raise(e) == [type |-> "raise", exc |-> e, lines |-> <<>>]
NoResp == [type |-> "", exc |-> "", lines |-> <<>>]
END == Return(<<RLine("END", NoCmd)>>)
\* "DESC %s\n\nCMD %s" % (method.__doc__, cmd)
DescCmd(c) ==
    Return(<<RLine("DESC", Cmd(c.prov, c.mode, 0)), RLine("", NoCmd),
             RLine("CMD", c)>>)
\* the yielded command as it is, under no tag
RawCmd(c) == Return(<<RLine("", c)>>)

\* ---------------------------------------------------------- SpaceState
\* the attributes of a SpaceState before dispense has created any
InitialState ==
    [begun |-> FALSE, iter |-> 0, curr_provider |-> 0, curr_gen |-> NoGen,
     provision_type |-> ""]

\* a begin that forgets to clear _curr_gen
begin_keepgen(s, mode) ==
    [begun |-> TRUE, iter |-> 0, curr_provider |-> 0,
     curr_gen |-> s.curr_gen, provision_type |-> mode]

\* dispense, the PROVIDE / REVERT branch: iter is the number of providers
\* taken from self._providers
begin(s, mode) ==
    [begun |-> TRUE, iter |-> 0, curr_provider |-> 0, curr_gen |-> NoGen,
     provision_type |-> mode]

\* the result of one dispense call: the SpaceState it leaves, what it
\* returns or raises, the providers whose generator it started, the
\* providers whose generator ended in it, and whether it sent an outcome
\* into a generator
Result(s, r, st, en, snt) ==
    [state |-> s, resp |-> r, started |-> st, ended |-> en, sent |-> snt]

\* dispense, "if not self._curr_provider": take the next provider
exhausted(provs, s) == s.curr_provider = 0 /\ s.iter >= Len(provs)
\* taking the providers from the end of the list
take_next_backwards(provs, s) ==
    IF s.curr_provider = 0 /\ s.iter < Len(provs)
      THEN [s EXCEPT !.curr_provider = provs[Len(provs) - s.iter],
                     !.iter = @ + 1]
      ELSE s

\* self._providers.next() when no provider is current
take_next(provs, s) ==
    IF s.curr_provider = 0 /\ s.iter < Len(provs)
      THEN [s EXCEPT !.curr_provider = provs[s.iter + 1], !.iter = @ + 1]
      ELSE s

\* a dispense that starts the provide method whatever the mode is
dispense_start_provide(c, provs, s) ==
    IF exhausted(provs, s) THEN Result(s, END, {}, {}, FALSE)
    ELSE LET s2 == take_next(provs, s)
             p == s2.curr_provider
             r == GenStart(c.kind[p])
             dead == [prov |-> p, mode |-> "provide", pos |-> 0,
                      live |-> FALSE]
         IN  CASE r = "yield" ->
                    Result([s2 EXCEPT !.curr_gen =
                               [prov |-> p, mode |-> "provide", pos |-> 1,
                                live |-> TRUE]],
                           DescCmd(Cmd(p, "provide", 1)), {p}, {}, FALSE)
               [] r = "stop" ->
                    Result([s2 EXCEPT !.curr_gen = dead],
                           Raise("StopIteration"), {p}, {p}, FALSE)
               [] OTHER ->
                    Result([s2 EXCEPT !.curr_gen = dead],
                           Raise("Abort"), {p}, {p}, FALSE)

\* dispense entered with _curr_gen None: take the next provider if none is
\* current, start its generator for the current mode, return its first
\* command; what the first next() raises is not caught
dispense_start(c, provs, s) ==
    IF exhausted(provs, s) THEN Result(s, END, {}, {}, FALSE)
    ELSE LET s2 == take_next(provs, s)
             p == s2.curr_provider
             m == s2.provision_type
             r == GenStart(c.kind[p])
             dead == [prov |-> p, mode |-> m, pos |-> 0, live |-> FALSE]
         IN  CASE r = "yield" ->
                    Result([s2 EXCEPT !.curr_gen =
                               [prov |-> p, mode |-> m, pos |-> 1,
                                live |-> TRUE]],
                           DescCmd(Cmd(p, m, 1)), {p}, {}, FALSE)
               [] r = "stop" ->
                    Result([s2 EXCEPT !.curr_gen = dead],
                           Raise("StopIteration"), {p}, {p}, FALSE)
               [] OTHER ->
                    Result([s2 EXCEPT !.curr_gen = dead],
                           Raise("Abort"), {p}, {p}, FALSE)

\* a dispense that hands the outcome on to the generator it starts after
\* the one that took it has ended
dispense_next_resend(c, provs, s0, mode, out) ==
    LET s1 == IF mode # "" THEN begin(s0, mode) ELSE s0
    IN  IF ~s1.begun THEN Result(s0, Raise("AttributeError"), {}, {}, FALSE)
        ELSE IF exhausted(provs, s1) THEN Result(s1, END, {}, {}, FALSE)
        ELSE LET s2 == take_next(provs, s1)
                 gen == s2.curr_gen
             IN
          IF gen = NoGen THEN dispense_start(c, provs, s1)
          ELSE IF out.err # "" THEN Result(s2, Raise(out.err), {}, {}, FALSE)
          ELSE LET r == GenSend(c.kind[gen.prov], gen, out.status) IN
              CASE r = "yield" ->
                     Result([s2 EXCEPT !.curr_gen.pos = @ + 1],
                            RawCmd(Cmd(gen.prov, gen.mode, gen.pos + 1)),
                            {}, {}, TRUE)
                [] r = "abort" ->
                     Result([s2 EXCEPT !.curr_gen.live = FALSE],
                            Raise("Abort"), {}, {gen.prov}, TRUE)
                [] OTHER ->
                     LET s3 == [s2 EXCEPT !.curr_provider = 0,
                                          !.curr_gen = NoGen]
                         n == dispense_start(c, provs, s3)
                         g == n.state.curr_gen
                     IN  IF g.live
                           THEN Result([n.state EXCEPT !.curr_gen.pos = @ + 1],
                                       RawCmd(Cmd(g.prov, g.mode, g.pos + 1)),
                                       n.started, n.ended \cup {gen.prov},
                                       TRUE)
                         ELSE Result(n.state, n.resp, n.started,
                                     n.ended \cup {gen.prov}, gen.live)

\* dispense after the request has been read: mode is "provide" / "revert"
\* for a begin request and "" otherwise, out is the outcome the request
\* carries, as [err, status, stdout, stderr] (read only when a generator
\* is resumed)
dispense_next(c, provs, s0, mode, out) ==
    LET s1 == IF mode # "" THEN begin(s0, mode) ELSE s0
    IN  IF ~s1.begun THEN Result(s0, Raise("AttributeError"), {}, {}, FALSE)
        ELSE IF exhausted(provs, s1) THEN Result(s1, END, {}, {}, FALSE)
        ELSE LET s2 == take_next(provs, s1)
                 gen == s2.curr_gen
             IN
          IF gen = NoGen THEN dispense_start(c, provs, s1)
          ELSE IF out.err # "" THEN Result(s2, Raise(out.err), {}, {}, FALSE)
          ELSE LET r == GenSend(c.kind[gen.prov], gen, out.status) IN
              CASE r = "yield" ->
                     Result([s2 EXCEPT !.curr_gen.pos = @ + 1],
                            RawCmd(Cmd(gen.prov, gen.mode, gen.pos + 1)),
                            {}, {}, TRUE)
                [] r = "abort" ->
                     Result([s2 EXCEPT !.curr_gen.live = FALSE],
                            Raise("Abort"), {}, {gen.prov}, TRUE)
                [] OTHER ->
                     LET s3 == [s2 EXCEPT !.curr_provider = 0,
                                          !.curr_gen = NoGen]
                         n == dispense_start(c, provs, s3)
                     IN  Result(n.state, n.resp, n.started,
                                n.ended \cup {gen.prov}, gen.live)

\* the mode a request begins, "" when it begins none
BeginMode(data) ==
    IF startswith(data, "PROVIDE") THEN "provide"
    ELSE IF startswith(data, "REVERT") THEN "revert" ELSE ""

\* SpaceState.dispense(data)
dispense(c, provs, s0, data) ==
    dispense_next(c, provs, s0, BeginMode(data), parse_result(data))

\* ------------------------------------------------ request summaries
HasTag(data, t) == \E i \in 1..Len(data) : data[i].tag = t
IsBegin(data) == startswith(data, "PROVIDE") \/ startswith(data, "REVERT")
\* the request carries no outcome at all: not one outcome tag in it
NoOutcome(data) == ~IsBegin(data) /\ \A i \in 1..Len(data) : data[i].tag = "TEXT"
\* an outcome message lacking a part (no STATUS line with a code, no
\* STDOUT, no STDERR), or with content before any tag
Malformed(data) ==
    /\ ~IsBegin(data)
    /\ \/ ~\E i \in 1..Len(data) : data[i].tag = "STATUS" /\ data[i].arg # "-"
       \/ ~HasTag(data, "STDOUT")
       \/ ~HasTag(data, "STDERR")
       \/ data[1].tag = "TEXT"
\* an outcome message with its three parts, every STATUS line with a code
\* and no content before the first STDOUT / STDERR tag
WellFormed(data) ==
    /\ ~IsBegin(data)
    /\ HasTag(data, "STATUS") /\ HasTag(data, "STDOUT") /\ HasTag(data, "STDERR")
    /\ \A i \in 1..Len(data) :
         /\ data[i].tag = "STATUS" => data[i].arg # "-"
         /\ data[i].tag = "TEXT" =>
               \E j \in 1..(i - 1) : data[j].tag \in {"STDOUT", "STDERR"}

Conns == {1, 2}

Summary(data, conn) ==
    [conn |-> conn,
     begin |-> BeginMode(data),
     nooutcome |-> NoOutcome(data),
     malformed |-> Malformed(data),
     wellformed |-> WellFormed(data)]
NoReq ==
    [conn |-> 0, begin |-> "", nooutcome |-> FALSE, malformed |-> FALSE,
     wellformed |-> FALSE]

\* history of the run since the last begin: whether a generator raised the
\* abort, whether it had before the last call, which providers' generators
\* have ended, and what the last call started and sent
NoHist ==
    [aborted |-> FALSE, wasAborted |-> FALSE, finished |-> {},
     wasFinished |-> {}, started |-> {}, sent |-> FALSE]
NextHist(h, data, r) ==
    LET base == IF IsBegin(data) THEN NoHist ELSE h
    IN  [aborted |-> base.aborted \/ r.resp.exc = "Abort",
         wasAborted |-> base.aborted,
         finished |-> base.finished \cup r.ended,
         wasFinished |-> base.finished,
         started |-> r.started,
         sent |-> r.sent]

\* --------------------------------------------------- configurations
\* the configuration with sections 1..k whose dependencies deps are
\* written in the given style: "uses" as _uses options, "lead" as option
\* values that start with a reference, "inner" as option values with the
\* reference after some text
MkCfg(k, deps, style, kind) ==
    [sections |-> 1..k,
     uses |-> [s \in 1..k |-> IF style = "uses" THEN deps[s] ELSE {}],
     vals |-> [s \in 1..k |->
                 LET ds == SortedSeq(deps[s]) IN
                 IF style = "lead" THEN [i \in 1..Len(ds) |-> <<ds[i], Txt>>]
                 ELSE IF style = "inner"
                   THEN [i \in 1..Len(ds) |-> <<Txt, ds[i]>>]
                 ELSE <<>>],
     kind |-> kind]

\* spaces.get_providers: one provider per section, in sorted order
get_providers(c) == sort_sections(c).order

\* ------------------------------------------------- the paired pipes
\* The outcome of a command as the Execution Driver takes it: exit status,
\* standard output lines, standard error lines.
OutLines == {<<>>, <<"x">>}
Outcomes ==
    [err : {""}, status : Statuses, stdout : OutLines, stderr : OutLines]

\* the reply of a client that ran the command: STATUS <code>, the STDOUT
\* block, the STDERR block
EncodeTcp(o) ==
    <<Line("STATUS", o.status), Line("STDOUT", "")>>
      \o [i \in 1..Len(o.stdout) |-> Line("TEXT", o.stdout[i])]
      \o <<Line("STDERR", "")>>
      \o [i \in 1..Len(o.stderr) |-> Line("TEXT", o.stderr[i])]

\* what a client answers a command with: the reply for an outcome (of
\* either status, with output on both streams or on none), or a line that
\* is no reply
ReplyData ==
    {EncodeTcp(o) : o \in {x \in Outcomes : x.stdout = x.stderr}}
      \cup {<<Line("TEXT", "x")>>}

\* inbound pipe messages of one round trip: XST <exit code>, then one STO
\* per output line and one STE per error line
PLine(t, a) == [tag |-> t, arg |-> a]
EncodePipe(o) ==
    <<PLine("XST", o.status)>>
      \o [i \in 1..Len(o.stdout) |-> PLine("STO", o.stdout[i])]
      \o [i \in 1..Len(o.stderr) |-> PLine("STE", o.stderr[i])]

\* the driver's side of the inbound channel: each line goes where its tag
\* says
RECURSIVE DecodeFrom(_, _, _)
DecodeFrom(lines, i, acc) ==
    IF i > Len(lines) THEN acc
    ELSE DecodeFrom(lines, i + 1,
           CASE lines[i].tag = "XST" -> [acc EXCEPT !.status = lines[i].arg]
             [] lines[i].tag = "STO" ->
                  [acc EXCEPT !.stdout = Append(@, lines[i].arg)]
             [] lines[i].tag = "STE" ->
                  [acc EXCEPT !.stderr = Append(@, lines[i].arg)]
             [] OTHER -> [acc EXCEPT !.err = "ProtocolError"])

\* a decoder that reads the exit code off the last line received
DecodePipe_lastline(lines) ==
    [DecodeFrom(lines, 1,
                [err |-> "", status |-> "", stdout |-> <<>>, stderr |-> <<>>])
       EXCEPT !.status = lines[Len(lines)].arg]

DecodePipe(lines) ==
    DecodeFrom(lines, 1,
               [err |-> "", status |-> "", stdout |-> <<>>, stderr |-> <<>>])

\* outbound pipe messages for what the driver gave: INF <description> and
\* CMD <text> for a command, END, ERR <message> for anything raised
ToPipe(r) ==
    IF r.type = "raise" THEN <<RLine("ERR", NoCmd)>>
    ELSE IF r = END THEN <<RLine("END", NoCmd)>>
    ELSE [i \in 1..Len(r.lines) |->
            IF r.lines[i].cmd.step >= 1 THEN RLine("CMD", r.lines[i].cmd)
            ELSE IF r.lines[i].tag = "DESC" THEN RLine("INF", r.lines[i].cmd)
            ELSE RLine("", NoCmd)]

\* what the executor reads off the outbound channel: the commands to run
\* and how the round ended
PipeCmds(lines) ==
    SelectSeq([i \in 1..Len(lines) |-> lines[i].cmd], LAMBDA c : c.step >= 1)
PipeEnd(lines) ==
    IF \E i \in 1..Len(lines) : lines[i].tag = "ERR" THEN "ERR"
    ELSE IF \E i \in 1..Len(lines) : lines[i].tag = "END" THEN "END"
    ELSE ""

\* the same, read off the driver's own answer
DirectCmds(r) ==
    SelectSeq([i \in 1..Len(r.lines) |-> r.lines[i].cmd], LAMBDA c : c.step >= 1)
DirectEnd(r) ==
    IF r.type = "raise" THEN "ERR" ELSE IF r = END THEN "END" ELSE ""

\* a driven session: its SpaceState, the commands issued so far, how the
\* last round ended and the outcome its driver received last
NoDriven ==
    [state |-> InitialState, cmds |-> <<>>, ended |-> "",
     got |-> [err |-> "", status |-> "", stdout |-> <<>>, stderr |-> <<>>]]

\* no library call has been made
NoCall == [fn |-> ""]
LibIdle ==
    call = NoCall /\ ccfg = <<>> /\ icfg = <<>> /\ host = <<>> /\ run = <<>>
    /\ dp = <<>>

\* no server has been constructed
SessionIdle ==
    /\ phase = "config"
    /\ sorted = [err |-> "", order |-> <<>>]
    /\ providers = <<>>
    /\ state = InitialState
    /\ req = NoReq
    /\ resp = NoResp
    /\ pre = InitialState
    /\ hist = NoHist
    /\ solo = [c \in Conns |-> InitialState]
    /\ soloResp = [c \in Conns |-> NoResp]
    /\ nreq = 0
    /\ pipe = NoDriven
    /\ direct = NoDriven

\* ------------------------------------------------- the served session
\* SpaceState(cfg_file) of a configuration that can be constructed
Init ==
    /\ \E k \in 0..MaxProviders :
         \E deps \in [1..k -> SUBSET (1..k)], style \in {"uses", "lead"},
            kind \in [1..k -> ProviderKinds] :
           /\ \A s \in 1..k : s \notin deps[s]
           /\ cfg = MkCfg(k, deps, style, kind)
    /\ sort_sections(cfg).err = ""
    /\ sorted = sort_sections(cfg)
    /\ providers = get_providers(cfg)
    /\ phase = "serving"
    /\ state = InitialState
    /\ req = NoReq
    /\ resp = NoResp
    /\ pre = InitialState
    /\ hist = NoHist
    /\ solo = [c \in Conns |-> InitialState]
    /\ soloResp = [c \in Conns |-> NoResp]
    /\ nreq = 0
    /\ pipe = NoDriven
    /\ direct = NoDriven
    /\ LibIdle

\* SpacesTCPHandler.handle for a connection of client conn that carried
\* data: one dispense call on the server's SpaceState
Serve(data, conn) ==
    LET r == dispense(cfg, providers, state, data) IN
    /\ phase = "serving"
    /\ state' = r.state
    /\ resp' = r.resp
    /\ pre' = state
    /\ req' = Summary(data, conn)
    /\ hist' = NextHist(hist, data, r)
    /\ UNCHANGED <<cfg, phase, sorted, providers, pipe, direct, libVars>>

Provide == Serve(<<Line("PROVIDE", "")>>, 1) /\ UNCHANGED <<solo, soloResp, nreq>>
Revert == Serve(<<Line("REVERT", "")>>, 1) /\ UNCHANGED <<solo, soloResp, nreq>>
Outcome ==
    \E data \in ReplyData :
        Serve(data, 1) /\ UNCHANGED <<solo, soloResp, nreq>>

Next == Provide \/ Revert \/ Outcome

Spec == Init /\ [][Next]_vars

\* ------------------------------------------------- requests of any text
\* the server of a configuration of one section, sent requests of any
\* lines: what dispense makes of the text of a request
WireInit ==
    /\ Init
    /\ cfg.sections = {1}

WireProvide == Provide
WireRevert == Revert
WireOutcome ==
    \E data \in OutcomeData :
        Serve(data, 1) /\ UNCHANGED <<solo, soloResp, nreq>>

WireNext == WireProvide \/ WireRevert \/ WireOutcome

WireSpec == WireInit /\ [][WireNext]_vars

\* -------------------------------------------- two clients, one server
\* __main__ creates one SpaceState and hangs it on the server; every
\* connection's handler calls dispense on that one object.  solo[c] is the
\* SpaceState of a server that client c would have to itself.
ServeConn(data, c) ==
    LET own == dispense(cfg, providers, solo[c], data) IN
    /\ nreq < MaxRequests
    /\ Serve(data, c)
    /\ solo' = [solo EXCEPT ![c] = own.state]
    /\ soloResp' = [soloResp EXCEPT ![c] = own.resp]
    /\ nreq' = nreq + 1

ConnProvide == \E c \in Conns : ServeConn(<<Line("PROVIDE", "")>>, c)
ConnRevert == \E c \in Conns : ServeConn(<<Line("REVERT", "")>>, c)
ConnOutcome == \E c \in Conns : \E data \in ReplyData : ServeConn(data, c)

ConnNext == ConnProvide \/ ConnRevert \/ ConnOutcome

ConnSpec == Init /\ [][ConnNext]_vars

\* --------------------------------- one session, over pipes and in process
\* both sessions are begun in the same mode
DrivenBegin(mode) ==
    LET rp == dispense_next(cfg, providers, pipe.state, mode, NoDriven.got)
        rd == dispense_next(cfg, providers, direct.state, mode, NoDriven.got)
    IN  /\ nreq < MaxRequests
        /\ nreq' = nreq + 1
        /\ pipe' = [state |-> rp.state, cmds |-> PipeCmds(ToPipe(rp.resp)),
                    ended |-> PipeEnd(ToPipe(rp.resp)), got |-> NoDriven.got]
        /\ direct' = [state |-> rd.state, cmds |-> DirectCmds(rd.resp),
                      ended |-> DirectEnd(rd.resp), got |-> NoDriven.got]
        /\ UNCHANGED <<cfg, phase, sorted, providers, state, req, resp, pre,
                       hist, solo, soloResp, libVars>>

\* the outcome o of the outstanding command is given to both sessions: to
\* one as XST / STO / STE lines, to the other as it is
DrivenOutcome(o) ==
    LET op == DecodePipe(EncodePipe(o))
        rp == dispense_next(cfg, providers, pipe.state, "", op)
        rd == dispense_next(cfg, providers, direct.state, "", o)
    IN  /\ nreq < MaxRequests
        /\ pipe.state.begun /\ direct.state.begun
        /\ nreq' = nreq + 1
        /\ pipe' = [state |-> rp.state,
                    cmds |-> pipe.cmds \o PipeCmds(ToPipe(rp.resp)),
                    ended |-> PipeEnd(ToPipe(rp.resp)), got |-> op]
        /\ direct' = [state |-> rd.state,
                      cmds |-> direct.cmds \o DirectCmds(rd.resp),
                      ended |-> DirectEnd(rd.resp), got |-> o]
        /\ UNCHANGED <<cfg, phase, sorted, providers, state, req, resp, pre,
                       hist, solo, soloResp, libVars>>

PipeProvide == DrivenBegin("provide")
PipeRevert == DrivenBegin("revert")
PipeOutcome == \E o \in Outcomes : DrivenOutcome(o)

PipeNext == PipeProvide \/ PipeRevert \/ PipeOutcome

\* the providers of the driven sessions declare no dependencies: their
\* order is the order of their names
PipeInit ==
    /\ Init
    /\ \A s \in cfg.sections : cfg.uses[s] = {} /\ cfg.vals[s] = <<>>

PipeSpec == PipeInit /\ [][PipeNext]_vars

\* ------------------------------------------------ ordering the sections
\* any configuration of at most MaxSections sections, its dependencies
\* naming any names (a name may be no section, a section may name itself)
SortInit ==
    /\ \E k \in 0..MaxSections :
         \E deps \in [1..k -> SUBSET Names],
            style \in {"uses", "lead", "inner"} :
           cfg = MkCfg(k, deps, style, [s \in 1..k |-> "script"])
    /\ SessionIdle
    /\ LibIdle

\* sort_sections(config) is called
SortSections ==
    /\ phase = "config"
    /\ phase' = "sorted"
    /\ sorted' = sort_sections(cfg)
    /\ UNCHANGED <<cfg, providers, state, req, resp, pre, hist, solo,
                   soloResp, nreq, pipe, direct, libVars>>

SortNext == SortSections

SortSpec == SortInit /\ [][SortNext]_vars

\* ------------------------------------------------- calling getuses
\* the values getuses reads: any sequence of at most MaxTokens tokens, a
\* reference standing at any place and naming any name
Tokens == {Txt} \cup Names
Values == UNION {[1..n -> Tokens] : n \in 0..MaxTokens}
ShortValues == {v \in Values : Len(v) <= 1}
OptionValues ==
    {<<>>} \cup {<<v>> : v \in Values}
           \cup {<<v, w>> : v \in Values, w \in ShortValues}

\* a configuration whose first section has any _uses and any option values
GetusesInit ==
    /\ \E k \in 1..MaxSections, u \in SUBSET Names, vs \in OptionValues :
         cfg = [sections |-> 1..k,
                uses |-> [s \in 1..k |-> IF s = 1 THEN u ELSE {}],
                vals |-> [s \in 1..k |-> IF s = 1 THEN vs ELSE <<>>],
                kind |-> [s \in 1..k |-> "script"]]
    /\ SessionIdle
    /\ LibIdle

\* config.getuses(s) is called
Getuses ==
    \E s \in cfg.sections :
        /\ call = NoCall
        /\ call' = [fn |-> "getuses", section |-> s, ret |-> getuses(cfg, s)]
        /\ UNCHANGED <<sessionVars, ccfg, icfg, host, run, dp>>

GetusesNext == Getuses

GetusesSpec == GetusesInit /\ [][GetusesNext]_vars

\* ------------------------------------------- the cascading parser
\* A section name is its sequence of labels; the label at place i is i, so
\* the names are the prefixes <<1>>, <<1, 2>>, ... of one longest name.
SectionNames == {[i \in 1..n |-> i] : n \in 1..MaxLabels}
Options == {"x", "y"}
OptionValues2 == {"v1", "v2"}
Missing == "-"

\* what the wrapped RawConfigParser holds for a name: whether the section
\* is defined, and for each option its value or Missing
SectionBodies ==
    {[defined |-> FALSE, opts |-> [o \in Options |-> Missing]]}
      \cup {[defined |-> TRUE, opts |-> f] :
               f \in [Options -> OptionValues2 \cup {Missing}]}

\* section.rsplit(" ", 1)[0]: the name without its last label, the name
\* itself when it has one label
rsplit(section) ==
    IF Len(section) > 1 THEN SubSeq(section, 1, Len(section) - 1) ELSE section

\* what a call returns or raises
Value(v) == [err |-> "", value |-> v, option |-> "", section |-> <<>>,
             parent_sections |-> <<>>]
Error(e, o, s, ps) == [err |-> e, value |-> Missing, option |-> o,
                       section |-> s, parent_sections |-> ps]

\* RawConfigParser.get(section, option)
cp_get(c, section, option) ==
    IF ~c[section].defined
      THEN Error("ConfigParser.NoSectionError", "", section, <<>>)
    ELSE IF c[section].opts[option] = Missing
      THEN Error("ConfigParser.NoOptionError", option, section, <<>>)
    ELSE Value(c[section].opts[option])

\* the option names in the order the section holds them
OptionOrder == <<"x", "y">>

\* RawConfigParser.items(section): [err, items], the (name, value) pairs
cp_items(c, section) ==
    IF ~c[section].defined
      THEN [err |-> "ConfigParser.NoSectionError", items |-> <<>>]
    ELSE [err |-> "",
          items |-> SelectSeq([i \in 1..Len(OptionOrder) |->
                                 <<OptionOrder[i], c[section].opts[OptionOrder[i]]>>],
                              LAMBDA it : it[2] # Missing)]

\* the while loop of CascadingConfigParser.get
RECURSIVE get_loop(_, _, _, _, _)
get_loop(c, orig_section, section, option, parent_sections) ==
    LET _section == rsplit(section)
    IN  IF section = _section
          THEN Error("NoOptionError", option, orig_section, parent_sections)
        ELSE LET r == cp_get(c, _section, option)
             IN  IF r.err = "" THEN r
                 ELSE get_loop(c, orig_section, _section, option,
                               Append(parent_sections, _section))

\* the loop giving up at the first ancestor that is no section
RECURSIVE get_loop_strict(_, _, _, _, _)
get_loop_strict(c, orig_section, section, option, parent_sections) ==
    LET _section == rsplit(section)
    IN  IF section = _section
          THEN Error("NoOptionError", option, orig_section, parent_sections)
        ELSE LET r == cp_get(c, _section, option)
             IN  IF r.err # "ConfigParser.NoOptionError" THEN r
                 ELSE get_loop_strict(c, orig_section, _section, option,
                                      Append(parent_sections, _section))

\* a get whose cascade stops at an ancestor that is not defined
get_strict(c, section, option, cascade) ==
    LET r == cp_get(c, section, option)
    IN  IF r.err # "ConfigParser.NoOptionError" THEN r
        ELSE IF ~cascade THEN r
        ELSE get_loop_strict(c, section, section, option, <<>>)

\* a get that reports the ancestors root first
get_rootfirst(c, section, option, cascade) ==
    LET r == cp_get(c, section, option)
        g == get_loop(c, section, section, option, <<>>)
        n == Len(g.parent_sections)
    IN  IF r.err # "ConfigParser.NoOptionError" THEN r
        ELSE IF ~cascade THEN r
        ELSE [g EXCEPT !.parent_sections =
                         [i \in 1..n |-> g.parent_sections[n + 1 - i]]]

\* CascadingConfigParser.get: only NoOptionError of the first lookup is
\* caught, and only when cascade is set
get(c, section, option, cascade) ==
    LET r == cp_get(c, section, option)
    IN  IF r.err # "ConfigParser.NoOptionError" THEN r
        ELSE IF ~cascade THEN r
        ELSE get_loop(c, section, section, option, <<>>)

\* the while loop of CascadingConfigParser.items: keys is the list of the
\* queried section's own option names and is not added to
RECURSIVE items_loop(_, _, _, _)
items_loop(c, section, keys, items) ==
    LET _section == rsplit(section)
        r == cp_items(c, _section)
        new == SelectSeq(r.items, LAMBDA it : it[1] \notin keys)
    IN  IF section = _section THEN items
        ELSE items_loop(c, _section, keys, items \o new)

\* CascadingConfigParser.items
items(c, section, cascade) ==
    LET r == cp_items(c, section)
        keys == {r.items[i][1] : i \in 1..Len(r.items)}
    IN  IF r.err # "" THEN r
        ELSE IF ~cascade THEN r
        ELSE [err |-> "", items |-> items_loop(c, section, keys, r.items)]

\* the empty served configuration
NoCfg == [sections |-> {}, uses |-> <<>>, vals |-> <<>>, kind |-> <<>>]

\* any sections under the names, defined or not, each with any options
CascadeInit ==
    /\ ccfg \in [SectionNames -> SectionBodies]
    /\ call = NoCall
    /\ icfg = <<>>
    /\ host = <<>> /\ run = <<>> /\ dp = <<>>
    /\ cfg = NoCfg
    /\ SessionIdle

\* parser.get(section, option, cascade) is called
Get ==
    \E section \in SectionNames, option \in Options, cascade \in BOOLEAN :
        /\ call = NoCall
        /\ call' = [fn |-> "get", section |-> section, option |-> option,
                    cascade |-> cascade,
                    ret |-> get(ccfg, section, option, cascade)]
        /\ UNCHANGED <<sessionVars, ccfg, icfg, host, run, dp>>

\* parser.items(section, cascade) is called
Items ==
    \E section \in SectionNames, cascade \in BOOLEAN :
        /\ call = NoCall
        /\ call' = [fn |-> "items", section |-> section, option |-> "",
                    cascade |-> cascade,
                    ret |-> items(ccfg, section, cascade)]
        /\ UNCHANGED <<sessionVars, ccfg, icfg, host, run, dp>>

CascadeNext == Get \/ Items

CascadeSpec == CascadeInit /\ [][CascadeNext]_vars

\* ------------------------------------------------------ interpolation
\* An option name or the key of a reference is a sequence of characters,
\* the characters 1 ("k") and 2 ("z") in their alphabetical order.  A value
\* is a sequence of words: a reference [sec]:key, or plain text (sec = Txt)
\* whose characters key holds.  No value holds a "%".
MAX_INTERPOLATION_DEPTH == 10
Ref(sec, key) == [sec |-> sec, key |-> key]
Text == [sec |-> Txt, key |-> <<3>>]
OptNames == {<<1>>, <<1, 1>>}
RefKeys == {<<1>>, <<1, 1>>, <<1, 2>>, <<1, 1, 2>>, <<2>>}
NoValue == <<Ref(Txt, <<>>)>>

\* what a lookup returns or raises
Ok(v) == [err |-> "", val |-> v]
Exc(e) == [err |-> e, val |-> <<>>]

\* ConfigParser.has_option, ConfigParser.options
has_option(c, sec, o) == o \in OptNames /\ c.opts[sec][o] # NoValue
options(c, sec) == {o \in OptNames : c.opts[sec][o] # NoValue}

\* o.startswith(option), o[len(option):]
key_startswith(o, option) ==
    Len(option) <= Len(o) /\ SubSeq(o, 1, Len(option)) = option
residue(o, option) == SubSeq(o, Len(option) + 1, Len(o))

\* the order of sorted() on strings
LexLess(a, b) ==
    \E i \in 1..(Len(b)) :
        /\ \A j \in 1..(i - 1) : j <= Len(a) /\ a[j] = b[j]
        /\ (i > Len(a) \/ (i <= Len(a) /\ a[i] < b[i]))

\* sorted(S), and reversed(sorted(S))
RECURSIVE sorted_names(_)
sorted_names(S) ==
    IF S = {} THEN <<>>
    ELSE LET m == CHOOSE x \in S : \A y \in S \ {x} : LexLess(x, y)
         IN  <<m>> \o sorted_names(S \ {m})
reversed(q) == [i \in 1..Len(q) |-> q[Len(q) + 1 - i]]

\* v + o[len(option):]: the residue follows the value with nothing between
\* them, so it lengthens the value's last word
concat(v, r) ==
    IF r = <<>> THEN v
    ELSE IF v = <<>> THEN <<[sec |-> Txt, key |-> r]>>
    ELSE [v EXCEPT ![Len(v)].key = @ \o r]

\* the for loop of _interpolation_replace over the candidate options
RECURSIVE partial_match(_, _, _, _, _)
partial_match(c, sec, o, opts, i) ==
    IF i > Len(opts) THEN Exc("NoOptionError")
    ELSE IF key_startswith(o, opts[i])
      THEN Ok(concat(c.opts[sec][opts[i]], residue(o, opts[i])))
    ELSE partial_match(c, sec, o, opts, i + 1)

RECURSIVE ConfigParser_get(_, _, _, _, _)
RECURSIVE _interpolate(_, _, _, _)
RECURSIVE _KEYCRE_sub(_, _, _, _)

\* _interpolation_replace with the candidate options tried in sorted order,
\* the shortest first
_interpolation_replace_shortest(c, w, nest) ==
    IF w.sec = Txt THEN Ok(<<w>>)
    ELSE IF has_section(c, w.sec)
      THEN IF has_option(c, w.sec, w.key)
             THEN ConfigParser_get(c, w.sec, w.key, FALSE, nest + 1)
           ELSE partial_match(c, w.sec, w.key,
                              sorted_names(options(c, w.sec)), 1)
    ELSE Exc("NoSectionError")

\* SpacesConfigParser._interpolation_replace for the match w; nest counts
\* the get calls under way
_interpolation_replace(c, w, nest) ==
    IF w.sec = Txt THEN Ok(<<w>>)
    ELSE IF has_section(c, w.sec)
      THEN IF has_option(c, w.sec, w.key)
             THEN ConfigParser_get(c, w.sec, w.key, FALSE, nest + 1)
           ELSE partial_match(c, w.sec, w.key,
                              reversed(sorted_names(options(c, w.sec))), 1)
    ELSE Exc("NoSectionError")

\* _KEYCRE.sub(self._interpolation_replace, value): every match from
\* place i on is replaced; an exception of the callback ends the call
_KEYCRE_sub(c, value, i, nest) ==
    IF i > Len(value) THEN Ok(<<>>)
    ELSE LET r == _interpolation_replace(c, value[i], nest)
         IN  IF r.err # "" THEN r
             ELSE LET rest == _KEYCRE_sub(c, value, i + 1, nest)
                  IN  IF rest.err # "" THEN rest ELSE Ok(r.val \o rest.val)

\* "[" in value
HasBracket(value) == \E i \in 1..Len(value) : value[i].sec # Txt
\* "%(" in value
HasPercent(value) == FALSE

\* SpacesConfigParser._interpolate: the while loop with depth rounds left,
\* then the test for "%("
_interpolate(c, value, depth, nest) ==
    IF depth # 0 /\ value # <<>> /\ HasBracket(value)
      THEN LET r == _KEYCRE_sub(c, value, 1, nest)
           IN  IF r.err # "" THEN r
               ELSE _interpolate(c, r.val, depth - 1, nest)
    ELSE IF value # <<>> /\ HasPercent(value)
      THEN Exc("InterpolationDepthError")
    ELSE Ok(value)

\* ConfigParser.get(section, option, raw): the raw value, interpolated
\* unless raw is set
ConfigParser_get(c, sec, o, raw, nest) ==
    IF nest > RecursionLimit THEN Exc("RuntimeError")
    ELSE IF ~has_section(c, sec) THEN Exc("NoSectionError")
    ELSE IF ~has_option(c, sec, o) THEN Exc("NoOptionError")
    ELSE IF raw THEN Ok(c.opts[sec][o])
    ELSE _interpolate(c, c.opts[sec][o], MAX_INTERPOLATION_DEPTH, nest)

\* the raw values of the configurations: nothing, text, one reference to
\* a section (3 is no section), or text and then a reference
RawWords ==
    {Text} \cup {Ref(sec, key) : sec \in {1, 2}, key \in {<<1>>, <<1, 2>>, <<2>>}}
           \cup {Ref(3, <<1>>)}
RawValues ==
    {<<>>} \cup {<<w>> : w \in RawWords} \cup {<<Text, Ref(2, <<1, 2>>)>>}

\* two sections, each with any of the options k and kk
InterpolateInit ==
    /\ \E o \in [{1, 2} -> [OptNames -> RawValues \cup {NoValue}]] :
         icfg = [sections |-> {1, 2}, opts |-> o]
    /\ call = NoCall
    /\ ccfg = <<>>
    /\ host = <<>> /\ run = <<>> /\ dp = <<>>
    /\ cfg = NoCfg
    /\ SessionIdle

\* config.get(sec, option) is called
ConfigGet ==
    \E sec \in {1, 2}, o \in OptNames :
        /\ call = NoCall
        /\ call' = [fn |-> "get", section |-> sec, option |-> o,
                    ret |-> ConfigParser_get(icfg, sec, o, FALSE, 1)]
        /\ UNCHANGED <<sessionVars, ccfg, icfg, host, run, dp>>

\* _KEYCRE.sub meets the reference [sec]:key and calls
\* _interpolation_replace
Replace ==
    \E sec \in {1, 2}, key \in RefKeys :
        /\ call = NoCall
        /\ call' = [fn |-> "replace", section |-> sec, option |-> key,
                    ret |-> _interpolation_replace(icfg, Ref(sec, key), 1)]
        /\ UNCHANGED <<sessionVars, ccfg, icfg, host, run, dp>>

InterpolateNext == ConfigGet \/ Replace

InterpolateSpec == InterpolateInit /\ [][InterpolateNext]_vars

\* ------------------------------------------------ the provider scripts
\* The variables EnvProvider is given, the backup variable of each
\* (_bac_preamble + k), and the variable rc of GitProvider's test
EnvKeys == {"A", "B"}
Bak(k) == IF k = "A" THEN "_SPACES_A" ELSE "_SPACES_B"
ShellVars == EnvKeys \cup {Bak(k) : k \in EnvKeys} \cup {"rc"}
\* a variable's value is a sequence of pieces; Unset when it has none
Unset == <<"unset">>
\* the ignore patterns GitProvider is given
Patterns == {"*.swp", "*.pyc"}

\* One simple command; a command line is a sequence (joined by ";") of
\* lists (joined by "&&") of simple commands, None when the provider gives
\* no command
Simple(op, k, v) == [op |-> op, k |-> k, v |-> v]
Line1(c) == <<<<c>>>>
None == <<>>

\* EnvProvider.provide: one (test, positive, negative) per variable, in the
\* order of self._env_vars.items(), which order stands for; vals are the
\* values of the variables.  The keys list the method sorts is not read
\* again.
EnvProvider_provide(order, append_only, vals) ==
    [i \in 1..Len(order) |->
       LET k == order[i]
           positive == IF k \in append_only
                         THEN Simple("export_append", k, vals[k])
                       ELSE Simple("export", k, vals[k])
       IN  [test |-> Line1(Simple("test_z", k, "")),
            primary |-> Line1(positive),
            altern |-> <<<<Simple("assign_bak", k, ""), positive>>>>]]

\* EnvProvider.revert
EnvProvider_revert(order) ==
    [i \in 1..Len(order) |->
       LET k == order[i]
       IN  [test |-> Line1(Simple("env_grep_bak", k, "")),
            primary |-> <<<<Simple("export_from_bak", k, "")>>,
                          <<Simple("unset_bak", k, "")>>>>,
            altern |-> Line1(Simple("unset_bak", k, ""))]]

\* VirtualenvProvider.provide and revert
VirtualenvProvider_provide ==
    <<[test |-> Line1(Simple("test_venv", "", "")),
       primary |-> Line1(Simple("source_activate", "", "")),
       altern |-> <<<<Simple("virtualenv", "", ""),
                      Simple("source_activate", "", "")>>>>]>>
VirtualenvProvider_revert ==
    <<[test |-> Line1(Simple("env_grep_venv", "", "")),
       primary |-> Line1(Simple("deactivate", "", "")),
       altern |-> None]>>

\* GitProvider.provide: clone when there is no directory; init, remote add
\* and checkout when the test of the second step fails; one step for each
\* ignore pattern
GitProvider_provide(ignore) ==
    <<[test |-> Line1(Simple("test_no_dir", "", "")),
       primary |-> Line1(Simple("git_clone", "", "")),
       altern |-> None],
      [test |-> <<<<Simple("popd_path", "", ""), Simple("rc_rev_parse", "", ""),
                    Simple("popd", "", "")>>,
                  <<Simple("test_rc", "", "")>>>>,
       primary |-> None,
       altern |-> <<<<Simple("pushd_path", "", ""), Simple("git_init", "", ""),
                      Simple("remote_add", "", ""), Simple("checkout", "", ""),
                      Simple("popd", "", "")>>>>]>>
      \o [i \in 1..Len(ignore) |->
            [test |-> Line1(Simple("grep_exclude", "", ignore[i])),
             primary |-> None,
             altern |-> Line1(Simple("cat_exclude", "", ignore[i]))]]

\* ScriptGenerator.build for a provider without revert: one
\* ("true", "true", "false") per provide step
DefaultRevert(n) ==
    [i \in 1..n |-> [test |-> Line1(Simple("true", "", "")),
                     primary |-> Line1(Simple("true", "", "")),
                     altern |-> Line1(Simple("false", "", ""))]]

\* _write_step_template: a part that is no string keeps the placeholder's
\* default, "true" for the primary and "false" for the alternate
_write_step_template(st) ==
    [test |-> IF st.test = None THEN Line1(Simple("true", "", ""))
              ELSE st.test,
     primary |-> IF st.primary = None THEN Line1(Simple("true", "", ""))
                 ELSE st.primary,
     altern |-> IF st.altern = None THEN Line1(Simple("false", "", ""))
                ELSE st.altern]

\* "$n": nothing for a variable that is not set
Expand(h, n) == IF h.env[n] = Unset THEN <<>> ELSE h.env[n]

\* what the shell does with one simple command: [ok, host]
ExecSimple(h0, c) ==
    LET h == [h0 EXCEPT !.ran = @ \cup {c.op}]
        Done(g) == [ok |-> TRUE, host |-> g]
        Test(b) == [ok |-> b, host |-> h]
        Fail == [ok |-> FALSE, host |-> h]
    IN  CASE c.op = "true" -> Test(TRUE)
          [] c.op = "false" -> Test(FALSE)
          \* test -z "$k"
          [] c.op = "test_z" -> Test(Expand(h, c.k) = <<>>)
          \* export k=v
          [] c.op = "export" ->
               Done([h EXCEPT !.env[c.k] = <<c.v>>,
                              !.exported = @ \cup {c.k}])
          \* export k=v:$k
          [] c.op = "export_append" ->
               Done([h EXCEPT !.env[c.k] = <<c.v, ":">> \o Expand(h, c.k),
                              !.exported = @ \cup {c.k}])
          \* _SPACES_<space>_k=$k: a shell variable, exported only if it
          \* was exported already
          [] c.op = "assign_bak" ->
               Done([h EXCEPT !.env[Bak(c.k)] = Expand(h, c.k)])
          \* env | grep _SPACES_<space>_k: env lists the exported variables
          [] c.op = "env_grep_bak" ->
               Test(Bak(c.k) \in h.exported /\ h.env[Bak(c.k)] # Unset)
          \* export k=$_SPACES_<space>_k
          [] c.op = "export_from_bak" ->
               Done([h EXCEPT !.env[c.k] = Expand(h, Bak(c.k)),
                              !.exported = @ \cup {c.k}])
          \* unset _SPACES_<space>_k
          [] c.op = "unset_bak" ->
               Done([h EXCEPT !.env[Bak(c.k)] = Unset,
                              !.exported = @ \ {Bak(c.k)}])
          \* test -d path -a -f path/bin/activate
          [] c.op = "test_venv" -> Test(h.venv)
          [] c.op = "source_activate" ->
               IF h.venv THEN Done([h EXCEPT !.active = TRUE]) ELSE Fail
          [] c.op = "virtualenv" -> Done([h EXCEPT !.venv = TRUE])
          \* env | grep VIRTUAL_ENV=path
          [] c.op = "env_grep_venv" -> Test(h.active)
          [] c.op = "deactivate" ->
               IF h.active THEN Done([h EXCEPT !.active = FALSE]) ELSE Fail
          \* test ! -d path
          [] c.op = "test_no_dir" -> Test(h.dir = "absent")
          \* git clone origin path
          [] c.op = "git_clone" ->
               IF h.dir = "absent" /\ h.net
                 THEN Done([h EXCEPT !.dir = "repo", !.remote = TRUE,
                                     !.fetched = TRUE])
               ELSE Fail
          \* popd path: popd takes no directory
          [] c.op = "popd_path" -> Fail
          \* rc=$(git rev-parse --is-inside-work-tree)
          [] c.op = "rc_rev_parse" ->
               IF h.dir = "repo" /\ h.pushed
                 THEN Done([h EXCEPT !.env["rc"] = <<"true">>])
               ELSE [ok |-> FALSE, host |-> [h EXCEPT !.env["rc"] = <<>>]]
          [] c.op = "popd" ->
               IF h.pushed THEN Done([h EXCEPT !.pushed = FALSE]) ELSE Fail
          \* test $rc
          [] c.op = "test_rc" -> Test(Expand(h, "rc") # <<>>)
          \* pushd path
          [] c.op = "pushd_path" ->
               IF h.dir # "absent" THEN Done([h EXCEPT !.pushed = TRUE])
               ELSE Fail
          [] c.op = "git_init" -> Done([h EXCEPT !.dir = "repo"])
          \* git remote add origin <origin>
          [] c.op = "remote_add" ->
               IF h.remote THEN Fail ELSE Done([h EXCEPT !.remote = TRUE])
          \* git checkout -t origin/master
          [] c.op = "checkout" -> Test(h.fetched)
          \* grep '<ignore>' path/.git/info/exclude
          [] c.op = "grep_exclude" ->
               Test(h.dir = "repo" /\ c.v \in h.exclude)
          \* cat >>path/.git/info/exclude <<EOF<ignore> / EOF: the word
          \* after << is the delimiter, so the line "EOF" is what is
          \* appended
          [] c.op = "cat_exclude" ->
               IF h.dir = "repo" THEN Done([h EXCEPT !.exclude = @ \cup {"EOF"}])
               ELSE Fail

\* a list joined by "&&": it stops at the first command that fails
RECURSIVE ExecAndList(_, _, _)
ExecAndList(h, cs, i) ==
    IF i > Len(cs) THEN [ok |-> TRUE, host |-> h]
    ELSE LET r == ExecSimple(h, cs[i])
         IN  IF r.ok THEN ExecAndList(r.host, cs, i + 1) ELSE r

\* lists joined by ";": all are run, the status is that of the last
RECURSIVE ExecLine(_, _, _)
ExecLine(h, line, i) ==
    LET r == ExecAndList(h, line[i], 1)
    IN  IF i = Len(line) THEN r ELSE ExecLine(r.host, line, i + 1)

\* the commands that change the host
Mutating ==
    {"export", "export_append", "assign_bak", "export_from_bak", "unset_bak",
     "virtualenv", "git_clone", "git_init", "remote_add", "checkout",
     "cat_exclude"}

\* step_template, the provide or revert half of one step: the test, then
\* the primary command if it succeeded and the alternate if not
step_template(h, st) ==
    LET t == ExecLine([h EXCEPT !.ran = {}], st.test, 1)
        branch == IF t.ok THEN st.primary ELSE st.altern
        r == ExecLine([t.host EXCEPT !.ran = {}], branch, 1)
    IN  [host |-> r.host, ok |-> r.ok,
         branch |-> IF t.ok THEN "primary" ELSE "altern"]

\* a host on which nothing is set and nothing exists
BareHost ==
    [env |-> [n \in ShellVars |-> Unset], exported |-> {}, dir |-> "absent",
     remote |-> FALSE, fetched |-> FALSE, exclude |-> {}, net |-> TRUE,
     pushed |-> FALSE, venv |-> FALSE, active |-> FALSE, ran |-> {}]

\* the runs of a script: provide then revert, or provide twice
Plans == {<<"provide", "revert">>, <<"provide", "provide">>}

\* the steps of the plan, those of its first run first
\* and the host as it is before the first
Script(kind, plan, provide, revert, h) ==
    LET second == IF plan[2] = "revert" THEN revert ELSE provide
        all == provide \o second
    IN  [kind |-> kind, plan |-> plan, first |-> Len(provide), host0 |-> h,
         steps |-> [i \in 1..Len(all) |-> _write_step_template(all[i])],
         pc |-> 1, branch |-> "", ok |-> TRUE, did |-> {}, all |-> {}]

\* EnvProvider(space, params) for one or two variables in either order,
\* on a shell where each of them is set or not and where a backup variable
\* may be left over, exported, from before
EnvInit ==
    \E order \in {<<"A">>, <<"B">>, <<"A", "B">>, <<"B", "A">>},
       plan \in Plans :
      \E append_only \in SUBSET {order[i] : i \in 1..Len(order)},
         old \in SUBSET {order[i] : i \in 1..Len(order)},
         stale \in SUBSET {order[i] : i \in 1..Len(order)} :
        /\ host = [BareHost EXCEPT
                     !.env = [n \in ShellVars |->
                                IF n \in old THEN <<"o">>
                                ELSE IF \E k \in stale : n = Bak(k)
                                  THEN <<"s">>
                                ELSE Unset],
                     !.exported = old \cup {Bak(k) : k \in stale}]
        /\ run = Script("env", plan,
                        EnvProvider_provide(order, append_only,
                            [k \in {order[i] : i \in 1..Len(order)} |-> "p"]),
                        EnvProvider_revert(order), host)

\* VirtualenvProvider on a host with or without the environment
VenvInit ==
    \E plan \in Plans, venv \in BOOLEAN, active \in BOOLEAN :
        /\ active => venv
        /\ host = [BareHost EXCEPT !.venv = venv, !.active = active]
        /\ run = Script("venv", plan, VirtualenvProvider_provide,
                        VirtualenvProvider_revert, host)

\* GitProvider with up to two ignore patterns, the path being no
\* directory, a plain directory or a repository
GitInit ==
    \E plan \in Plans, dir \in {"absent", "plain", "repo"}, net \in BOOLEAN,
       ignore \in {<<>>} \cup {<<p>> : p \in Patterns}
                         \cup {<<p, q>> : p \in Patterns, q \in Patterns},
       exclude \in SUBSET Patterns :
        /\ dir # "repo" => exclude = {}
        /\ host = [BareHost EXCEPT !.dir = dir, !.net = net,
                                   !.remote = (dir = "repo"),
                                   !.fetched = (dir = "repo"),
                                   !.exclude = exclude]
        /\ run = Script("git", plan, GitProvider_provide(ignore),
                        DefaultRevert(Len(GitProvider_provide(ignore))), host)

ScriptInit ==
    /\ EnvInit \/ VenvInit \/ GitInit
    /\ call = NoCall /\ dp = <<>>
    /\ ccfg = <<>> /\ icfg = <<>>
    /\ cfg = NoCfg
    /\ SessionIdle

\* the next step of the script is run
RunStep ==
    LET r == step_template(host, run.steps[run.pc])
    IN  /\ run.pc <= Len(run.steps)
        /\ host' = r.host
        /\ run' = [run EXCEPT !.pc = @ + 1, !.branch = r.branch, !.ok = r.ok,
                              !.did = r.host.ran, !.all = @ \cup r.host.ran]
        /\ UNCHANGED <<sessionVars, call, ccfg, icfg, dp>>

ScriptNext == RunStep

ScriptSpec == ScriptInit /\ [][ScriptNext]_vars

\* ===================================================== definition files
\* config_reader/space_definition.py: DefinitionParser.read takes the
\* definition text line by line.  A line is modelled by what _preprocess
\* and read look at: whether it starts with "[", the labels between the
\* brackets and whether it ends with "]", the option name before the ":"
\* and the comma separated values after it.  A value is its words and
\* whether it is written in brackets.
Word(w) == [br |-> FALSE, words |-> <<w>>]
Bracketed(ws) == [br |-> TRUE, words |-> ws]
RawLine(open, labels, close, key, values) ==
    [open |-> open, labels |-> labels, close |-> close, key |-> key,
     values |-> values]
HeaderLines ==
    {RawLine(TRUE, l, TRUE, "", <<>>) : l \in {<<"a">>, <<"a", "b">>, <<>>}}
      \cup {RawLine(TRUE, <<"a">>, FALSE, "", <<>>)}
OptionLines ==
    {RawLine(FALSE, <<>>, FALSE, k, <<Word("1")>>) : k \in {"x", "y"}}
      \cup {RawLine(FALSE, <<>>, FALSE, "x", <<>>)}
      \cup {RawLine(FALSE, <<>>, FALSE, "_require", <<v>>) :
              v \in {Bracketed(<<"a">>), Bracketed(<<"a", "b">>), Word("1")}}
ContinuationLines == {RawLine(FALSE, <<>>, FALSE, "", <<Word("1")>>)}
EmptyLines == {RawLine(FALSE, <<>>, FALSE, "", <<>>)}
InputLines == HeaderLines \cup OptionLines \cup ContinuationLines \cup EmptyLines

\* _preprocess: the type of a line
ltype(line) ==
    IF ~line.open /\ line.key = "" /\ line.values = <<>> THEN "empty"
    ELSE IF line.open THEN "section"
    ELSE IF line.key # "" THEN "option"
    ELSE "option cont"

\* the local vals of read: unbound, a list of values, or the set
\* _parse_required_values returns
Unbound == [type |-> "unbound", list |-> <<>>, set |-> {}]
ListOf(l) == [type |-> "list", list |-> l, set |-> {}]
SetOf(s) == [type |-> "set", list |-> <<>>, set |-> s]

\* a key of _dependency: a tuple of labels or a string
TupleKey(labels) == <<"tuple", labels>>
StrKey(name) == <<"str", <<name>>>>

\* d[k] = v on a dict
setitem(d, k, v) == [x \in DOMAIN d \cup {k} |-> IF x = k THEN v ELSE d[x]]
EmptyDict == <<>>

\* curr_section / prev_section = None
NoSection == <<>>

\* the locals and attributes of a read that has taken n lines; heads and
\* declared record the headers taken and the _require values each section
\* was given, as written
NewParser ==
    [status |-> "reading", err |-> "", n |-> 0,
     curr_section |-> NoSection, prev_section |-> NoSection,
     curr_option |-> "", prev_option |-> "", vals |-> Unbound,
     tree |-> EmptyDict, dependency |-> EmptyDict,
     heads |-> <<>>, declared |-> EmptyDict]

raise(d, e) == [d EXCEPT !.status = "error", !.err = e, !.n = @ + 1]

\* _parse_required_values: the set of label tuples, NameError at a value
\* that is not in brackets (orig and lnum are not defined there)
required_ok(values) == \A i \in 1..Len(values) : values[i].br
_parse_required_values(values) ==
    {values[i].words : i \in 1..Len(values)}

\* read, ltype == SECTION
read_section(d, line) ==
    LET prev == d.curr_section
        curr == line.labels
    IN  IF ~line.close THEN raise(d, "Bad section syntax")
        ELSE IF curr = <<>> THEN raise(d, "No labels in section")
        ELSE IF curr = prev THEN raise(d, "Duplicate section")
        ELSE IF prev # NoSection /\ d.tree[prev] = EmptyDict
          THEN raise(d, "Section without options")
        ELSE [d EXCEPT !.n = @ + 1,
                       !.prev_section = prev,
                       !.curr_section = curr,
                       !.curr_option = "",
                       !.tree = setitem(@, curr, EmptyDict),
                       !.dependency = setitem(@, TupleKey(curr), {}),
                       !.heads = Append(@, curr),
                       !.declared = setitem(@, curr, {})]

\* read, ltype == OPTION
read_option(d, line) ==
    LET prev == d.curr_option
        curr == line.key
    IN  IF d.curr_section = NoSection
          THEN raise(d, "Option not within section")
        ELSE IF curr = prev THEN raise(d, "Duplicate option")
        ELSE IF line.values = <<>> THEN raise(d, "Option has no values")
        ELSE IF curr = "_require"
          THEN IF ~required_ok(line.values) THEN raise(d, "NameError")
               ELSE LET vals == SetOf(_parse_required_values(line.values)) IN
                    [d EXCEPT !.n = @ + 1,
                              !.prev_option = prev,
                              !.curr_option = curr,
                              !.vals = vals,
                              !.dependency = setitem(@, StrKey(curr), vals.set),
                              !.tree[d.curr_section] = setitem(@, curr, vals),
                              !.declared[d.curr_section] =
                                  _parse_required_values(line.values)]
        ELSE [d EXCEPT !.n = @ + 1,
                       !.prev_option = prev,
                       !.curr_option = curr,
                       !.vals = ListOf(line.values),
                       !.tree[d.curr_section] =
                           setitem(@, curr, ListOf(line.values))]

\* read, ltype == OPTION_CT: vals is what the option before left, not the
\* line; csv.reader is handed a list holding that list or set
read_continuation(d, line) ==
    IF d.vals = Unbound THEN raise(d, "UnboundLocalError")
    ELSE raise(d, "csv.Error")

\* read, ltype == EOF
read_eof(d) ==
    IF d.curr_section # NoSection /\ d.tree[d.curr_section] = EmptyDict
      THEN [d EXCEPT !.status = "error", !.err = "Section without options"]
      ELSE [d EXCEPT !.status = "done"]

\* DefinitionParser() about to read
DefInit ==
    /\ dp = NewParser
    /\ call = NoCall /\ ccfg = <<>> /\ icfg = <<>> /\ host = <<>> /\ run = <<>>
    /\ cfg = NoCfg
    /\ SessionIdle

DefStep(d) ==
    /\ dp' = d
    /\ UNCHANGED <<sessionVars, call, ccfg, icfg, host, run>>

ReadSection ==
    /\ dp.status = "reading" /\ dp.n < MaxInput
    /\ \E line \in InputLines :
         ltype(line) = "section" /\ DefStep(read_section(dp, line))
ReadOption ==
    /\ dp.status = "reading" /\ dp.n < MaxInput
    /\ \E line \in InputLines :
         ltype(line) = "option" /\ DefStep(read_option(dp, line))
ReadContinuation ==
    /\ dp.status = "reading" /\ dp.n < MaxInput
    /\ \E line \in InputLines :
         ltype(line) = "option cont" /\ DefStep(read_continuation(dp, line))
ReadEmpty ==
    /\ dp.status = "reading" /\ dp.n < MaxInput
    /\ \E line \in InputLines :
         ltype(line) = "empty" /\ DefStep([dp EXCEPT !.n = @ + 1])
ReadEOF ==
    /\ dp.status = "reading"
    /\ DefStep(read_eof(dp))

DefNext == ReadSection \/ ReadOption \/ ReadContinuation \/ ReadEmpty \/ ReadEOF

DefSpec == DefInit /\ [][DefNext]_vars

\* ======================================================= script building
\* providers.py: the providers a script is built from, and what
\* ScriptGenerator.build makes of them.
\*
\* What a method returned: a list of steps, one step as a bare tuple, or
\* None
PyList(steps) == [py |-> "list", steps |-> steps]
PyTuple(step) == [py |-> "tuple", steps |-> <<step>>]
PyNone == [py |-> "None", steps |-> <<>>]

\* platform.dist()[0].lower() on the hosts considered
Dists == {"debian", "ubuntu", "redhat"}
\* the package provider classes
Implementations == {"DebPkgProvider", "RpmPkgProvider", "PipProvider"}
\* PkgProvider.concrete_implementations after the module is loaded
concrete_implementations == {"DebPkgProvider"}
\* compatible_platform() of a class; PipProvider defines none
compatible_platform(impl, dist) ==
    CASE impl = "DebPkgProvider" -> dist = "debian"
      [] impl = "RpmPkgProvider" -> dist = "redhat"
      [] OTHER -> FALSE

\* the outcome of a constructor call: the class of the instance or the
\* error raised
Made(asked, cls) == [asked |-> asked, err |-> "", cls |-> cls]
Failed(asked, e) == [asked |-> asked, err |-> e, cls |-> ""]
NoneMade == [asked |-> "", err |-> "", cls |-> ""]

\* PkgProvider.__new__(cls, space, params)
PkgProvider_new(cls, dist) ==
    IF cls = "PkgProvider"
      THEN LET candidates ==
                 {p \in concrete_implementations :
                      compatible_platform(p, dist)}
           IN  IF Cardinality(candidates) < 1
                 THEN Failed(cls, "RuntimeError")
               ELSE IF Cardinality(candidates) > 1
                 THEN Failed(cls, "RuntimeError")
               ELSE Made(cls, CHOOSE p \in candidates : TRUE)
      ELSE Made(cls, cls)

\* the packages asked for, in sorted() order, and the version asked for
\* ("" for None)
PkgNames == <<"finger", "wget">>
PkgVersion(name) == IF name = "wget" THEN "1" ELSE ""
sorted_packages(packages) ==
    SelectSeq(PkgNames, LAMBDA n : n \in packages)

\* _provide of the three implementations: (test, None, install)
_provide(cls, name, version) ==
    CASE cls = "DebPkgProvider" ->
           [test |-> Line1(Simple("dpkg_query", name, version)),
            primary |-> None,
            altern |-> Line1(Simple("apt_get_install", name, version))]
      [] cls = "RpmPkgProvider" ->
           [test |-> Line1(Simple("rpm_q", name, version)),
            primary |-> None,
            altern |-> Line1(Simple("yum_install", name, version))]
      [] OTHER ->
           [test |-> Line1(Simple("pip_freeze", name, version)),
            primary |-> None,
            altern |-> Line1(Simple("pip_install", name, version))]

\* PkgProvider.provide: one step per package, sorted by name
PkgProvider_provide(cls, packages) ==
    LET names == sorted_packages(packages)
    IN  [i \in 1..Len(names) |-> _provide(cls, names[i], PkgVersion(names[i]))]

\* a provider instance: its class and the attributes its methods read.
\* Other is a provider of no class of this module, ScriptGenerator
\* taking any object with a provide method: it gives nprovide steps and
\* has no revert, a revert that returns None, or one of nrevert steps
Instance(cls, order, append_only, vals, ignore, packages, np, rk, nr) ==
    [cls |-> cls, order |-> order, append_only |-> append_only,
     vals |-> vals, ignore |-> ignore, packages |-> packages,
     nprovide |-> np, revert_kind |-> rk, nrevert |-> nr]
OtherStep(method, i) ==
    [test |-> Line1(Simple("other_test", method, i)),
     primary |-> Line1(Simple("other_do", method, i)),
     altern |-> None]
Digits == <<"1", "2", "3", "4">>
OtherSteps(method, n) == [i \in 1..n |-> OtherStep(method, Digits[i])]

\* provider.provide()
provide(p) ==
    CASE p.cls = "EnvProvider" ->
           PyList(EnvProvider_provide(p.order, p.append_only, p.vals))
      [] p.cls = "VirtualenvProvider" ->
           PyTuple(VirtualenvProvider_provide[1])
      [] p.cls = "GitProvider" -> PyList(GitProvider_provide(p.ignore))
      [] p.cls \in Implementations ->
           PyList(PkgProvider_provide(p.cls, p.packages))
      [] OTHER -> PyList(OtherSteps("provide", p.nprovide))

\* whether the provider has a revert attribute
has_revert(p) ==
    /\ p.cls # "GitProvider"
    /\ p.cls = "Other" => p.revert_kind # "absent"

\* provider.revert()
revert(p) ==
    CASE p.cls = "EnvProvider" -> PyList(EnvProvider_revert(p.order))
      [] p.cls = "VirtualenvProvider" -> PyTuple(VirtualenvProvider_revert[1])
      [] p.cls \in Implementations -> PyNone
      [] OTHER -> IF p.revert_kind = "None" THEN PyNone
                  ELSE PyList(OtherSteps("revert", p.nrevert))

\* _marshall_script_parts: one default step for None, a bare tuple put in
\* a list; the list handed in is what is returned
_marshall_script_parts(data) ==
    IF data.py = "None" THEN DefaultRevert(1) ELSE data.steps

\* one step of the script: the provide half and the revert half, each
\* after _write_step_template has put the defaults in
Pair(p, r) ==
    [provide |-> _write_step_template(p), revert |-> _write_step_template(r)]
Built(e, steps) == [err |-> e, steps |-> steps]

\* _build_step with the IndexError of revert[i] not caught
_build_step_uncaught(provide_steps, revert_steps) ==
    IF Len(revert_steps) < Len(provide_steps)
      THEN Built("IndexError", <<>>)
      ELSE Built("", [i \in 1..Len(provide_steps) |->
                        Pair(provide_steps[i], revert_steps[i])])

\* _build_step: the i-th provide step with revert[i], the default when
\* revert[i] raises IndexError
_build_step(provide_steps, revert_steps) ==
    Built("", [i \in 1..Len(provide_steps) |->
                 Pair(provide_steps[i],
                      IF i <= Len(revert_steps) THEN revert_steps[i]
                      ELSE DefaultRevert(1)[1])])

\* build, one provider: "#BLOCK", the description, the dependency test
\* of a provider that has one, the steps
Block(p) ==
    LET prov == _marshall_script_parts(provide(p))
        rev == IF has_revert(p) THEN _marshall_script_parts(revert(p))
               ELSE DefaultRevert(Len(prov))
        b == _build_step(prov, rev)
    IN  [err |-> b.err, cls |-> p.cls,
         require |-> p.cls = "VirtualenvProvider", steps |-> b.steps]

\* ScriptGenerator.build: the blocks in the order of self.providers; an
\* error raised in a block ends the build
build(ps) ==
    LET blocks == [i \in 1..Len(ps) |-> Block(ps[i])]
        bad == {i \in 1..Len(ps) : blocks[i].err # ""}
    IN  IF bad = {} THEN [err |-> "", blocks |-> blocks]
        ELSE [err |-> blocks[CHOOSE i \in bad : \A j \in bad : i <= j].err,
              blocks |-> <<>>]

\* the provider parameters considered
EnvOrders == {<<"A">>, <<"B">>, <<"A", "B">>, <<"B", "A">>}
KeysOf(order) == {order[i] : i \in 1..Len(order)}
\* a value is plain text or text that names the other variable
RefTo(k) == IF k = "A" THEN "$A" ELSE "$B"
EnvVals(order) ==
    {v \in [KeysOf(order) -> {"p", "$A", "$B"}] :
        \A k \in KeysOf(order) : v[k] # RefTo(k)}
Ignores == {<<>>, <<"*.swp">>}
PackageSets == SUBSET {"finger", "wget"}

NoArgs == Instance("", <<>>, {}, <<>>, <<>>, {}, 0, "", 0)

\* a host of some distribution, no provider constructed yet
BuildInit ==
    /\ \E d \in Dists : host = [dist |-> d]
    /\ run = [providers |-> <<>>, new |-> NoneMade]
    /\ call = NoCall /\ dp = <<>>
    /\ ccfg = <<>> /\ icfg = <<>>
    /\ cfg = NoCfg
    /\ SessionIdle

\* the program goes on while nothing was raised and build was not called
Going == run.new.err = "" /\ call = NoCall

\* a constructor call: the instance joins the providers the script will
\* be built from, an error ends the program
Construct(made, inst) ==
    /\ Going
    /\ Len(run.providers) < MaxBlocks
    /\ run' = [providers |-> IF made.err = ""
                               THEN Append(run.providers,
                                           [inst EXCEPT !.cls = made.cls])
                             ELSE run.providers,
               new |-> made]
    /\ UNCHANGED <<sessionVars, call, ccfg, icfg, host, dp>>

NewEnvProvider ==
    \E order \in EnvOrders :
      \E append_only \in {{}, IF Len(order) = 1 THEN KeysOf(order) \cap {"A"}
                                 ELSE {}},
         vals \in EnvVals(order) :
        Construct(Made("EnvProvider", "EnvProvider"),
                  [NoArgs EXCEPT !.order = order,
                                 !.append_only = append_only,
                                 !.vals = vals])
NewVirtualenvProvider ==
    Construct(Made("VirtualenvProvider", "VirtualenvProvider"), NoArgs)
NewGitProvider ==
    \E ignore \in Ignores :
        Construct(Made("GitProvider", "GitProvider"),
                  [NoArgs EXCEPT !.ignore = ignore])
NewPkgProvider ==
    \E packages \in PackageSets :
        Construct(PkgProvider_new("PkgProvider", host.dist),
                  [NoArgs EXCEPT !.packages = packages])
NewPipProvider ==
    \E packages \in {{"finger"}} :
        Construct(PkgProvider_new("PipProvider", host.dist),
                  [NoArgs EXCEPT !.packages = packages])
NewOther ==
    \E rk \in {"absent", "None", "list"}, nr \in 0..MaxSteps :
        /\ rk # "list" => nr = 0
        /\ Construct(Made("Other", "Other"),
                     [NoArgs EXCEPT !.nprovide = MaxSteps,
                                    !.revert_kind = rk, !.nrevert = nr])

\* provider.provide() of one of the providers
CallProvide ==
    /\ Going
    /\ \E i \in 1..Len(run.providers) :
         call' = [fn |-> "provide", self |-> run.providers[i],
                  ret |-> provide(run.providers[i])]
    /\ UNCHANGED <<sessionVars, ccfg, icfg, host, run, dp>>

\* ScriptGenerator(*providers).build()
Build ==
    /\ Going
    /\ call' = [fn |-> "build", ret |-> build(run.providers)]
    /\ UNCHANGED <<sessionVars, ccfg, icfg, host, run, dp>>

BuildNext ==
    \/ NewEnvProvider \/ NewVirtualenvProvider \/ NewGitProvider
    \/ NewPkgProvider \/ NewPipProvider \/ NewOther
    \/ CallProvide \/ Build

BuildSpec == BuildInit /\ [][BuildNext]_vars

\* ============================================================ a session
\* One session of a client that does what the protocol asks of it: it
\* begins once, and whenever a command is outstanding it answers with a
\* well-formed outcome.  run.order lists the providers whose generator
\* was started since the begin, in the order they were started.
LiveInit ==
    /\ \E k \in 0..MaxProviders :
         \E deps \in [1..k -> SUBSET (1..k)], style \in {"uses", "lead"},
            kind \in [1..k -> ProviderKinds] :
           /\ \A s \in 1..k : s \notin deps[s]
           /\ cfg = MkCfg(k, deps, style, kind)
    /\ sort_sections(cfg).err = ""
    /\ sorted = sort_sections(cfg)
    /\ providers = get_providers(cfg)
    /\ phase = "serving"
    /\ state = InitialState
    /\ req = NoReq
    /\ resp = NoResp
    /\ pre = InitialState
    /\ hist = NoHist
    /\ solo = [c \in Conns |-> InitialState]
    /\ soloResp = [c \in Conns |-> NoResp]
    /\ nreq = 0
    /\ pipe = NoDriven
    /\ direct = NoDriven
    /\ call = NoCall /\ ccfg = <<>> /\ icfg = <<>> /\ host = <<>>
    /\ dp = <<>>
    /\ run = [order |-> <<>>]

\* the providers of a set, smallest first
RECURSIVE InOrder(_)
InOrder(ps) ==
    IF ps = {} THEN <<>>
    ELSE LET p == CHOOSE x \in ps : \A y \in ps : x <= y
         IN  <<p>> \o InOrder(ps \ {p})

\* one dispense call of the session
LiveServe(data) ==
    LET r == dispense(cfg, providers, state, data) IN
    /\ state' = r.state
    /\ resp' = r.resp
    /\ pre' = state
    /\ req' = Summary(data, 1)
    /\ hist' = NextHist(hist, data, r)
    /\ run' = [order |-> (IF IsBegin(data) THEN <<>> ELSE run.order)
                            \o InOrder(r.started)]
    /\ UNCHANGED <<cfg, phase, sorted, providers, pipe, direct, solo,
                   soloResp, nreq, call, ccfg, icfg, host, dp>>

\* the client begins the session
LiveBegin ==
    /\ ~state.begun
    /\ \E word \in {"PROVIDE", "REVERT"} : LiveServe(<<Line(word, "")>>)

\* the client has run the outstanding command and reports its outcome
LiveOutcome ==
    /\ state.begun /\ state.curr_gen.live
    /\ \E data \in ReplyData : WellFormed(data) /\ LiveServe(data)

LiveNext == LiveBegin \/ LiveOutcome

\* the client goes on: it begins, and it answers every command
LiveSpec ==
    LiveInit /\ [][LiveNext]_vars /\ WF_vars(LiveBegin) /\ WF_vars(LiveOutcome)

\* ============================================================ properties
\* the commands a response carries (under the CMD tag or under none)
CmdsOf(r) == {r.lines[i].cmd : i \in 1..Len(r.lines)} \ {NoCmd}
CarriesCmd(r) == \E c \in CmdsOf(r) : c.step >= 1
\* a command was outstanding when the last call began
Outstanding == pre.begun /\ pre.curr_gen.live

\* C1: a next call made while a command is outstanding and carrying no
\* outcome is rejected with an error; it sends nothing into the suspended
\* generator, starts no generator, issues no command and leaves the session
\* as it was.
C1_NoOutcomeRejected ==
    (req.nooutcome /\ Outstanding) =>
        /\ resp.type = "raise" /\ resp.exc \in {"KeyError", "IndexError"}
        /\ ~hist.sent /\ hist.started = {}
        /\ ~CarriesCmd(resp)
        /\ state = pre

C1_Witness ==
    /\ req.nooutcome /\ Outstanding
    /\ resp.exc = "KeyError"
    /\ state.curr_gen.live /\ state.curr_gen.pos = MaxSteps

\* C2 (as claimed): once a generator has raised the abort, no later call
\* that is not a begin starts a generator or issues a command.
C2_AbortEndsSession ==
    (hist.wasAborted /\ req.begin = "") =>
        hist.started = {} /\ ~CarriesCmd(resp)

\* C3: a command of provider B is issued only when the generator of every
\* provider A that B depends on has ended (completed or aborted) in the run
\* of the active mode.
C3_DependencyOrder ==
    \A c \in CmdsOf(resp) :
        c.step >= 1 =>
            /\ c.mode = state.provision_type
            /\ \A a \in getuses(cfg, c.prov).uses \ {c.prov} :
                   a \in hist.finished

C3_Witness ==
    \E c \in CmdsOf(resp) :
        /\ c.step >= 1
        /\ \E a \in getuses(cfg, c.prov).uses : a > c.prov /\ a \in hist.finished

\* C4 (as claimed): every call of a begun session that is a begin or
\* carries a well-formed outcome returns a command, END or the abort.
C4_CommandEndOrAbort ==
    ((req.begin # "" \/ (pre.begun /\ req.wellformed))) =>
        \/ resp.type = "return" /\ CarriesCmd(resp)
        \/ resp = END
        \/ resp.type = "raise" /\ resp.exc = "Abort"

\* C5: a begin request resets the session whatever state it was in: the
\* generator that was suspended is gone, iteration is at the first provider
\* of the order, its generator is the one of the requested mode, and the
\* call returns that generator's first command (where it has one).
C5_BeginResets ==
    req.begin # "" =>
        /\ state.begun /\ state.provision_type = req.begin
        /\ hist.finished \subseteq hist.started /\ ~hist.sent
        /\ IF providers = <<>>
             THEN resp = END /\ state.curr_gen = NoGen /\ state.iter = 0
             ELSE /\ state.iter = 1
                  /\ state.curr_provider = providers[1]
                  /\ hist.started = {providers[1]}
                  /\ state.curr_gen.prov = providers[1]
                  /\ state.curr_gen.mode = req.begin
                  /\ GenStart(cfg.kind[providers[1]]) = "yield" =>
                        /\ resp = DescCmd(Cmd(providers[1], req.begin, 1))
                        /\ state.curr_gen.pos = 1 /\ state.curr_gen.live

C5_Witness ==
    /\ req.begin = "revert"
    /\ Outstanding /\ pre.provision_type = "provide"
    /\ pre.curr_provider # providers[1]
    /\ resp = DescCmd(Cmd(providers[1], "revert", 1))

\* C6 (as claimed): the response a client receives is the one it would
\* receive from a server it had to itself.
C6_SessionsIndependent ==
    \A c \in Conns : req.conn = c => resp = soloResp[c]

\* C7: for one provider list and one sequence of outcomes, the session
\* driven over the paired pipes issues the same commands, ending the same
\* way, as the session driven in process.
C7_PipeSameCommands ==
    /\ pipe.cmds = direct.cmds
    /\ pipe.ended = direct.ended
    /\ pipe.got = direct.got

C7_Witness ==
    /\ pipe.ended = "END"
    /\ Len(pipe.cmds) = MaxRequests - 1
    /\ pipe.got.stdout # <<>> /\ pipe.got.stderr # <<>>
    /\ \E i \in 1..Len(pipe.cmds) : pipe.cmds[i].prov # pipe.cmds[1].prov

\* C8 (as claimed): every returned response is END or carries its command
\* under the CMD tag.
C8_ResponsesTagged ==
    resp.type = "return" =>
        \/ resp = END
        \/ \E i \in 1..Len(resp.lines) :
              resp.lines[i].tag = "CMD" /\ resp.lines[i].cmd.step >= 1

\* C9: a malformed outcome message passed while a generator is suspended
\* raises an error and leaves the session as it was: same provider, same
\* generator at the same position, same place in the order, same mode.
C9_MalformedKeepsState ==
    (req.malformed /\ Outstanding) =>
        /\ resp.type = "raise" /\ resp.exc \in {"KeyError", "IndexError"}
        /\ state = pre
        /\ ~hist.sent

C9_Witness ==
    /\ req.malformed /\ ~req.nooutcome /\ Outstanding
    /\ resp.exc = "IndexError"
    /\ state = pre

\* the dependency edges of a configuration: getuses of every section, and
\* whether every getuses call succeeds
UsesGraph(c) == [s \in c.sections |-> getuses(c, s).uses]
UsesOk(c) == \A s \in c.sections : getuses(c, s).err = ""
IsDag(c) == \A s \in c.sections : s \notin Reach(UsesGraph(c), UsesGraph(c)[s])
IndexOf(seq, x) == CHOOSE i \in 1..Len(seq) : seq[i] = x

\* C10: for a configuration whose dependency edges form a DAG,
\* sort_sections returns every section exactly once, each D in getuses(S)
\* at a smaller index than S.
C10_DagOrder ==
    (phase = "sorted" /\ UsesOk(cfg) /\ IsDag(cfg)) =>
        /\ sorted.err = ""
        /\ Len(sorted.order) = Cardinality(cfg.sections)
        /\ {sorted.order[i] : i \in 1..Len(sorted.order)} = cfg.sections
        /\ \A s \in cfg.sections : \A d \in getuses(cfg, s).uses :
               IndexOf(sorted.order, d) < IndexOf(sorted.order, s)

C10_Witness ==
    /\ phase = "sorted" /\ UsesOk(cfg) /\ IsDag(cfg)
    /\ Cardinality(cfg.sections) = MaxSections
    /\ \E s \in cfg.sections : \E d \in getuses(cfg, s).uses :
          d > s /\ cfg.vals[s] # <<>>
    /\ sorted.err = ""

\* C11 (as claimed): for a configuration whose dependency edges contain a
\* cycle of any length, a section that depends on itself included,
\* sort_sections fails with the cycle error and returns no order.
\* toposort_flatten discards the edge of a section to itself before it
\* sorts, so a configuration whose only cycle is such an edge is ordered.
C11_CycleRejected ==
    (phase = "sorted" /\ UsesOk(cfg) /\ ~IsDag(cfg)) =>
        sorted.err = "CircularDependencyError" /\ sorted.order = <<>>

\* every section an interpolation reference of the values vs names
AllRefs(vs) ==
    UNION {{vs[i][j] : j \in 1..Len(vs[i])} : i \in 1..Len(vs)} \ {Txt}

\* C12 (as claimed): getuses(section) returns exactly the sections named in
\* _uses together with every section referenced by an interpolation
\* reference anywhere in any option value, references that do not start the
\* value and second references of one value included.  getuses applies
\* _KEYCRE.match, which looks at the start of the value only.
C12_GetusesAllReferences ==
    (call.fn = "getuses" /\ call.ret.err = "") =>
        call.ret.uses = cfg.uses[call.section]
                          \cup AllRefs(cfg.vals[call.section])

\* the proper prefixes of a section name, the longest first
RECURSIVE Ancestors(_)
Ancestors(section) ==
    IF Len(section) <= 1 THEN <<>>
    ELSE <<rsplit(section)>> \o Ancestors(rsplit(section))
\* the section and its ancestors, the most specific first
Levels(section) == <<section>> \o Ancestors(section)
Defines(c, section, option) ==
    c[section].defined /\ c[section].opts[option] # Missing
\* the places in Levels(section) of the levels that define the option
DefiningLevels(c, section, option) ==
    {i \in 1..Len(Levels(section)) : Defines(c, Levels(section)[i], option)}
\* the value of the most specific level that defines the option
NearestValue(c, section, option) ==
    LET d == DefiningLevels(c, section, option)
        i == CHOOSE j \in d : \A k \in d : j <= k
    IN  c[Levels(section)[i]].opts[option]
NotFound == {"ConfigParser.NoOptionError", "ConfigParser.NoSectionError"}

\* C13 (as claimed): get with cascade=True returns the section's own value
\* if it defines the option and otherwise the value of the nearest ancestor
\* that defines it; with cascade=False it fails with a not-found error
\* naming the queried section whenever the section does not define the
\* option.  Stated for every queried name, this fails for a name that is
\* not itself a defined section: its NoSectionError is not caught.
C13_GetCascades ==
    call.fn = "get" =>
        /\ (call.cascade
              /\ DefiningLevels(ccfg, call.section, call.option) # {}) =>
               call.ret = Value(NearestValue(ccfg, call.section, call.option))
        /\ (~call.cascade /\ ~Defines(ccfg, call.section, call.option)) =>
               call.ret.err \in NotFound /\ call.ret.section = call.section

\* C13 (amended): for a queried section that is defined, get with
\* cascade=True returns the section's own value if it defines the option
\* and otherwise the value of the nearest ancestor that defines it,
\* skipping prefixes that are no sections or do not define it; with
\* cascade=False it fails with a not-found error naming the queried section
\* whenever the section does not define the option; a queried name that is
\* no defined section fails with NoSectionError, cascade or not.
C13_GetCascadesDefined ==
    call.fn = "get" =>
        /\ (call.cascade /\ ccfg[call.section].defined
              /\ DefiningLevels(ccfg, call.section, call.option) # {}) =>
               call.ret = Value(NearestValue(ccfg, call.section, call.option))
        /\ (~call.cascade /\ ~Defines(ccfg, call.section, call.option)) =>
               call.ret.err \in NotFound /\ call.ret.section = call.section
        /\ ~ccfg[call.section].defined =>
               /\ call.ret.err = "ConfigParser.NoSectionError"
               /\ call.ret.section = call.section

\* a three-label section without the option, its parent not defined, the
\* root defining it: the root's value is returned
C13_Witness ==
    /\ call.fn = "get" /\ call.cascade /\ Len(call.section) = MaxLabels
    /\ ccfg[call.section].defined /\ ~Defines(ccfg, call.section, call.option)
    /\ ~ccfg[rsplit(call.section)].defined
    /\ DefiningLevels(ccfg, call.section, call.option) = {Len(call.section)}
    /\ call.ret.err = ""
    /\ call.ret.value = ccfg[<<1>>].opts[call.option]

\* the values the item list its pairs an option name with
ItemValues(its, option) ==
    {i \in 1..Len(its) : its[i][1] = option}

\* C14 (as claimed): items(S, cascade=True) holds each option name at most
\* once, paired with the value of the most specific level that defines it;
\* no more distant ancestor's value appears for a key a nearer level
\* defines, also when the nearer level is an ancestor and not S.  The loop
\* tests ancestor keys against the keys of S only, so a key two ancestors
\* define and S does not is appended once for each of them.
C14_ItemsNearestOnce ==
    (call.fn = "items" /\ call.cascade /\ call.ret.err = "") =>
        \A o \in Options :
            /\ Cardinality(ItemValues(call.ret.items, o)) <= 1
            /\ \A i \in ItemValues(call.ret.items, o) :
                   call.ret.items[i][2] = NearestValue(ccfg, call.section, o)

\* C15 (as claimed): when get with cascade=True finds the option neither in
\* the section nor in any ancestor, it fails with the no-such-option error
\* carrying the queried section and the list of every ancestor prefix,
\* nearest first, down to the single-label root.  Stated for every queried
\* name, this fails for a name that is no defined section: NoSectionError
\* leaves get before any ancestor is consulted.
C15_NoOptionListsAncestors ==
    (call.fn = "get" /\ call.cascade
       /\ DefiningLevels(ccfg, call.section, call.option) = {}) =>
        call.ret = Error("NoOptionError", call.option, call.section,
                         Ancestors(call.section))

\* C15 (amended): when the queried section is defined and get with
\* cascade=True finds the option neither in it nor in any ancestor, it
\* fails with the no-such-option error carrying the queried section and the
\* list of every ancestor prefix, nearest first, down to the single-label
\* root.
C15_NoOptionListsAncestorsDefined ==
    (call.fn = "get" /\ call.cascade /\ ccfg[call.section].defined
       /\ DefiningLevels(ccfg, call.section, call.option) = {}) =>
        call.ret = Error("NoOptionError", call.option, call.section,
                         Ancestors(call.section))

\* a section of MaxLabels labels: the error lists its MaxLabels - 1
\* ancestors, the parent first and the root last
C15_Witness ==
    /\ call.fn = "get" /\ call.cascade /\ Len(call.section) = MaxLabels
    /\ ccfg[call.section].defined
    /\ DefiningLevels(ccfg, call.section, call.option) = {}
    /\ call.ret.err = "NoOptionError"
    /\ Len(call.ret.parent_sections) = MaxLabels - 1
    /\ call.ret.parent_sections[1] = rsplit(call.section)
    /\ call.ret.parent_sections[MaxLabels - 1] = <<1>>

\* C16 (as claimed): interpolation always terminates: references are
\* substituted until none remain, and if references remain at the depth
\* bound the lookup fails with the depth-exceeded error; it neither recurses
\* without bound nor returns a value that still holds a reference.  Two
\* options that reference each other by their exact names recurse through
\* get until the interpreter stops them; referencing each other by a longer
\* key, they use up the ten rounds and the value is returned as it stands.
C16_InterpolationBounded ==
    call.fn = "get" =>
        /\ call.ret.err # "RuntimeError"
        /\ call.ret.err = "" => ~HasBracket(call.ret.val)

\* the options of a section whose name the key o starts with
Prefixes(c, sec, o) == {p \in options(c, sec) : key_startswith(o, p)}
Longest(P) == CHOOSE p \in P : \A q \in P : Len(q) <= Len(p)

\* C17: resolving [s]:o where s is a section without an option named o,
\* the longest option name of s that is a prefix of o is chosen and the
\* substitution is that option's raw value followed by the rest of o; with
\* no option name a prefix of o the lookup fails with NoOptionError.
C17_LongestPrefix ==
    (call.fn = "replace" /\ ~has_option(icfg, call.section, call.option)) =>
        LET P == Prefixes(icfg, call.section, call.option)
        IN  IF P = {} THEN call.ret = Exc("NoOptionError")
            ELSE call.ret =
                   Ok(concat(icfg.opts[call.section][Longest(P)],
                             residue(call.option, Longest(P))))

\* both k and kk are options, with different values, and the key is kkz:
\* the value of kk comes back with z behind it
C17_Witness ==
    /\ call.fn = "replace" /\ call.option = <<1, 1, 2>>
    /\ options(icfg, call.section) = OptNames
    /\ icfg.opts[call.section][<<1>>] # icfg.opts[call.section][<<1, 1>>]
    /\ icfg.opts[call.section][<<1, 1>>] = <<Text>>
    /\ call.ret = Ok(<<[sec |-> Txt, key |-> <<3, 2>>]>>)

\* C18 (as claimed): for every variable k of the environment provider and
\* every initial shell environment, running all provide steps and then all
\* revert steps leaves k unset if it was unset before and set to v if it
\* was set to v.  The backup is a shell variable that env does not list, so
\* the revert test fails and only the backup is unset; and no revert
\* command unsets k.
C18_RevertRestores ==
    (run.kind = "env" /\ run.plan = <<"provide", "revert">>
       /\ run.pc > Len(run.steps)) =>
        \A k \in EnvKeys : host.env[k] = run.host0.env[k]

\* C19 (as claimed): in a second provide run on the host a first complete
\* provide run left, the branch every step takes performs no mutating
\* command.  The second run of the environment provider finds the variable
\* set, so it takes the alternate: backup assignment and export.
C19_SecondRunProbesOnly ==
    (run.plan = <<"provide", "provide">> /\ run.pc - 1 > run.first) =>
        run.did \cap Mutating = {}

\* C20 (as claimed): when the target directory exists and is no repository,
\* the checkout provider's steps run nothing that turns it into one (git
\* init, remote add, checkout), unlike the case of no directory, in which
\* clone runs.  The second step's alternate runs exactly these commands.
C20_PlainDirectoryNotConverted ==
    run.kind = "git" =>
        /\ run.host0.dir = "plain" =>
               run.all \cap {"git_init", "remote_add", "checkout"} = {}
        /\ (run.host0.dir = "absent" /\ run.pc > 1) => "git_clone" \in run.all


\* ---------------------------------------------------------------- C21
\* C21: a read that ends without an error has taken no two section
\* headers with the same labels, next to each other or apart: the second
\* one is refused as a duplicate instead of replacing the first.
C21_DuplicateSectionRefused ==
    dp.status = "done" =>
        \A i, j \in 1..Len(dp.heads) :
            i # j => dp.heads[i] # dp.heads[j]

\* ---------------------------------------------------------------- C28
\* C28: after a read that ends without an error the dependency map has
\* one entry per header taken, keyed by its label tuple, and the entry of
\* a section is the set of label tuples its _require option names, empty
\* when it has none.
C28_DependencyPerSection ==
    dp.status = "done" =>
        /\ DOMAIN dp.dependency =
               {TupleKey(dp.heads[i]) : i \in 1..Len(dp.heads)}
        /\ \A s \in DOMAIN dp.declared :
               dp.dependency[TupleKey(s)] = dp.declared[s]

\* ---------------------------------------------------------------- C22
\* C22: PkgProvider(space, params) succeeds exactly when one of the three
\* package implementations reports its platform compatible, the instance
\* then being of that implementation; it fails when none or several do.
CompatibleImplementations ==
    {i \in Implementations : compatible_platform(i, host.dist)}
C22_PkgProviderSelection ==
    run.new.asked = "PkgProvider" =>
        /\ run.new.err = "" <=> Cardinality(CompatibleImplementations) = 1
        /\ run.new.err = "" => run.new.cls \in CompatibleImplementations

\* ---------------------------------------------------------------- C26
\* C26: EnvProvider.provide returns one step per variable of its params,
\* and the step of a variable whose value names another variable of the
\* provider comes after the step of that variable.
StepKey(st) == st.test[1][1].k
C26_ReferencedFirst ==
    (call.fn = "provide" /\ call.self.cls = "EnvProvider") =>
        LET steps == call.ret.steps
            keys == DOMAIN call.self.vals
        IN  /\ Len(steps) = Cardinality(keys)
            /\ \A k \in keys : \E i \in 1..Len(steps) : StepKey(steps[i]) = k
            /\ \A i, j \in 1..Len(steps) :
                 call.self.vals[StepKey(steps[i])] = RefTo(StepKey(steps[j]))
                    => j < i

\* ---------------------------------------------------------------- C27
\* C27: build does not fail; it gives one block per provider, in the
\* order the providers were given, and a block has one step per provide
\* step of its provider, the i-th provide step together with the i-th
\* revert step, or with the default (true, true, false) where the
\* provider has no revert, its revert returns None, or returns fewer
\* than i steps.
TrueTrueFalse ==
    [test |-> Line1(Simple("true", "", "")),
     primary |-> Line1(Simple("true", "", "")),
     altern |-> Line1(Simple("false", "", ""))]
HasRevertStep(p, i) ==
    has_revert(p) /\ revert(p).py # "None" /\ i <= Len(revert(p).steps)
C27_BuildPairsSteps ==
    call.fn = "build" =>
        LET ps == run.providers
            out == call.ret
        IN  /\ out.err = ""
            /\ Len(out.blocks) = Len(ps)
            /\ \A b \in 1..Len(ps) :
                 LET prov == provide(ps[b]).steps
                     steps == out.blocks[b].steps
                 IN  /\ out.blocks[b].cls = ps[b].cls
                     /\ Len(steps) = Len(prov)
                     /\ \A i \in 1..Len(prov) :
                          /\ steps[i].provide = _write_step_template(prov[i])
                          /\ steps[i].revert =
                               IF HasRevertStep(ps[b], i)
                                 THEN _write_step_template(
                                          revert(ps[b]).steps[i])
                               ELSE TrueTrueFalse
\* a script built from a provider without revert and a package provider,
\* whose revert returns None, with two packages
C27_Witness ==
    /\ call.fn = "build"
    /\ call.ret.err = ""
    /\ Len(run.providers) = 2
    /\ run.providers[1].cls = "GitProvider"
    /\ run.providers[2].cls = "DebPkgProvider"
    /\ Cardinality(run.providers[2].packages) = 2
    /\ Len(call.ret.blocks[2].steps) = 2

\* ---------------------------------------------------------------- C23
\* C23: the mode of a session is the mode of its last begin: a begin sets
\* it, no other request changes it, and every generator started, for the
\* first provider and for those after it, is the method of that mode and
\* the command it yields is a command of that mode.
C23_ModeFixedByBegin ==
    /\ req.begin # "" => state.provision_type = req.begin
    /\ (req # NoReq /\ req.begin = "") =>
           state.provision_type = pre.provision_type
    /\ state.curr_gen # NoGen => state.curr_gen.mode = state.provision_type
    /\ \A p \in hist.started :
         /\ state.curr_gen.prov = p
         /\ \A c \in CmdsOf(resp) :
              c.prov = p /\ c.mode = state.provision_type
\* an outcome of a revert session has ended the first provider's
\* generator and started the second provider's
C23_Witness ==
    /\ req.begin = "" /\ req.wellformed
    /\ state.provision_type = "revert"
    /\ state.iter = 2
    /\ hist.started = {state.curr_provider}
    /\ state.curr_gen.live /\ state.curr_gen.mode = "revert"

\* ---------------------------------------------------------------- C25
\* C25: a well-formed outcome given while a command is outstanding is
\* sent into the generator that issued the command and moves it on by one
\* step; when that generator ends and the next provider's is started in
\* the same call, the new generator is at its first command, not having
\* taken the outcome.
C25_OutcomeDeliveredOnce ==
    /\ (Outstanding /\ req.wellformed) => hist.sent
    /\ hist.sent => pre.curr_gen # NoGen /\ req.begin = ""
    /\ (hist.sent /\ hist.started = {} /\ state.curr_gen.live) =>
          /\ state.curr_gen = [pre.curr_gen EXCEPT !.pos = @ + 1]
          /\ resp = RawCmd(Cmd(state.curr_gen.prov, state.curr_gen.mode,
                               state.curr_gen.pos))
    /\ \A p \in hist.started :
         state.curr_gen.live =>
            /\ state.curr_gen.pos = 1
            /\ resp = DescCmd(Cmd(p, state.provision_type, 1))
\* the outcome that ended the first provider's generator: the second
\* provider's has been started and is at its first command
C25_Witness ==
    /\ Outstanding /\ req.wellformed /\ hist.sent
    /\ pre.curr_gen.prov # state.curr_gen.prov
    /\ hist.started = {state.curr_gen.prov}
    /\ state.curr_gen.live /\ state.curr_gen.pos = 1

\* ---------------------------------------------------------------- C24
\* C24: unless a generator aborts, a session that is begun and given a
\* well-formed outcome for every command issued comes to the call that
\* returns END, the generator of every provider having been started once,
\* in the order of the list.
C24_SessionReachesEnd ==
    <>(hist.aborted \/ (resp = END /\ run.order = providers))
====
